---------------------------- MODULE Spec2Model ----------------------------
(***************************************************************************)
(* A model of the Beehive file-curation pipeline of crocus-code:           *)
(*   src/beehive-file-ingest/crocus_file_curator.py   (the job runner)     *)
(*   src/beehive-file-ingest/beehive_file_fetcher.py  (the downloader)     *)
(*                                                                         *)
(* Python strings are sequences of one-character strings, so that          *)
(* startswith, lstrip, os.path.join, os.path.dirname, re.search and        *)
(* strptime are computed character by character, as the libraries do.      *)
(* A Python dict is a record whose DOMAIN is the set of keys present.      *)
(* None and NaN are the one-element sequences <<"None">> and <<"NaN">>,    *)
(* which no string of characters equals.                                   *)
(***************************************************************************)
EXTENDS Integers, Sequences, FiniteSets, TLC

VARIABLES
    config,     \* the loaded YAML configuration: [username, password, jobs]
    args,       \* the command line: [dry_run, test_run, job]
    pc,         \* position of run_download_jobs / of the operation under study
    ji,         \* index in config.jobs of the job of the `for job in jobs` loop
    settings,   \* parse_job_settings(job) of the current job
    windows,    \* date_range_loop(start_date, end_date) of the current job
    wi,         \* index of the current day window
    rows,       \* the rows still to be iterated for the current day, site by site
    files,      \* the file tree: destination path -> content written there
    dirs,       \* the directories os.makedirs has created
    queried,    \* history: the catalog queries issued and their answers, in order
    outcomes,   \* history: one DownloadOutcome per record handled, in order
    fetched,    \* history: the HTTP GETs issued and how each ended, in order
    exc,        \* the exception that left the run, or "none"
    probe,      \* inputs and result of the pure function under study
    dl          \* the state of a direct call of download_beehive_files

vars == <<config, args, pc, ji, settings, windows, wi, rows, files, dirs,
          queried, outcomes, fetched, exc, probe, dl>>

-----------------------------------------------------------------------------
(* Bounds of the model.                                                    *)

\* Number of jobs in a configuration file.
MaxJobs == 2
\* Day ordinals a job's start_date and end_date are drawn from: 0..MaxDay.
MaxDay == 2
\* Instants per day that a start or end instant may carry: 0 is 00:00:00,
\* TicksPerDay - 1 is 23:59:59.
TicksPerDay == 3
\* Number of times download_beehive_files is called over the same records.
MaxRuns == 2

-----------------------------------------------------------------------------
(* Python values.                                                          *)

NoneV == <<"None">>
NaN == <<"NaN">>
Sep == "/"
Digits == <<"0", "1", "2", "3", "4", "5", "6", "7", "8", "9">>
IsDigit(c) == \E i \in 1..Len(Digits) : Digits[i] = c
DigitVal(c) == (CHOOSE i \in 1..Len(Digits) : Digits[i] = c) - 1

\* dict.get(key, default)
Get(d, k, default) == IF k \in DOMAIN d THEN d[k] ELSE default

\* Python truthiness of a string or None: "" and None are falsy.
Truthy(s) == s # <<>> /\ s # NoneV

\* str.startswith
StartsWith(s, p) == Len(p) <= Len(s) /\ SubSeq(s, 1, Len(p)) = p
\* str.endswith
EndsWith(s, p) == Len(p) <= Len(s) /\ SubSeq(s, Len(s) - Len(p) + 1, Len(s)) = p

RECURSIVE LStrip(_, _)
\* str.lstrip(c) for a one-character c
LStrip(s, c) == IF s # <<>> /\ Head(s) = c THEN LStrip(Tail(s), c) ELSE s

RECURSIVE RStrip(_, _)
\* str.rstrip(c) for a one-character c
RStrip(s, c) ==
    IF s # <<>> /\ s[Len(s)] = c THEN RStrip(SubSeq(s, 1, Len(s) - 1), c) ELSE s

\* str.rfind(c) + 1: the 1-based index of the last c, 0 when there is none
RFind(s, c) ==
    LET hits == {i \in 1..Len(s) : s[i] = c}
    IN  IF hits = {} THEN 0 ELSE CHOOSE i \in hits : \A k \in hits : k <= i

-----------------------------------------------------------------------------
(* posixpath                                                               *)

\* os.path.basename
Basename(p) == SubSeq(p, RFind(p, Sep) + 1, Len(p))

\* os.path.dirname
Dirname(p) ==
    LET head == SubSeq(p, 1, RFind(p, Sep))
    IN  IF head # <<>> /\ (\E i \in 1..Len(head) : head[i] # Sep)
        THEN RStrip(head, Sep)
        ELSE head

\* os.path.join(a, b): an absolute b discards a
Join2(a, b) ==
    IF StartsWith(b, <<Sep>>) THEN b
    ELSE IF a = <<>> \/ a[Len(a)] = Sep THEN a \o b
    ELSE a \o <<Sep>> \o b

RECURSIVE JoinAll(_, _)
\* os.path.join(a, *parts)
JoinAll(a, parts) ==
    IF parts = <<>> THEN a ELSE JoinAll(Join2(a, Head(parts)), Tail(parts))

RECURSIVE Split(_, _)
\* str.split(c): the segments between the occurrences of c
Split(s, c) ==
    LET hits == {i \in 1..Len(s) : s[i] = c}
    IN  IF hits = {} THEN <<s>>
        ELSE LET i == CHOOSE i \in hits : \A k \in hits : i <= k
             IN  <<SubSeq(s, 1, i - 1)>> \o Split(SubSeq(s, i + 1, Len(s)), c)

RECURSIVE Collapse(_, _)
\* os.path.normpath of an absolute path, on its segments: '' and '.' are
\* dropped, '..' removes the segment before it and is dropped at the root.
Collapse(segs, acc) ==
    IF segs = <<>> THEN acc
    ELSE LET h == Head(segs)
         IN  IF h = <<>> \/ h = <<".">> THEN Collapse(Tail(segs), acc)
             ELSE IF h = <<".", ".">>
                  THEN Collapse(Tail(segs),
                                IF acc = <<>> THEN acc
                                ELSE SubSeq(acc, 1, Len(acc) - 1))
                  ELSE Collapse(Tail(segs), Append(acc, h))

\* The directories an absolute path names, after the kernel has resolved
\* '.', '..' and repeated separators.
Segments(p) == Collapse(Split(p, Sep), <<>>)

\* The directory p is root itself or lies below it.
Inside(root, p) ==
    /\ StartsWith(p, <<Sep>>)
    /\ LET r == Segments(root)
           q == Segments(p)
       IN  Len(r) <= Len(q) /\ SubSeq(q, 1, Len(r)) = r

-----------------------------------------------------------------------------
(* datetime: a calendar date is [y, m, d]; an instant of the date range is *)
(* [day, tod], a day ordinal and an instant within the day.                *)

NoDate == [y |-> 0, m |-> 0, d |-> 0]

IsLeap(y) == (y % 4 = 0 /\ y % 100 # 0) \/ y % 400 = 0

DaysInMonth(y, m) ==
    IF m = 2 THEN (IF IsLeap(y) THEN 29 ELSE 28)
    ELSE IF m \in {4, 6, 9, 11} THEN 30 ELSE 31

RECURSIVE NumStr(_, _)
\* The decimal digits of n, zero-padded to width w: "%04d" % n and the like.
NumStr(n, w) ==
    IF w = 0 THEN <<>> ELSE Append(NumStr(n \div 10, w - 1), Digits[(n % 10) + 1])

RECURSIVE NumVal(_)
\* int() of a string of digits
NumVal(s) ==
    IF s = <<>> THEN 0
    ELSE 10 * NumVal(SubSeq(s, 1, Len(s) - 1)) + DigitVal(s[Len(s)])

AllDigits(s) == \A i \in 1..Len(s) : IsDigit(s[i])

\* An instant a is not after an instant b.
InstantLeq(a, b) == a.day < b.day \/ (a.day = b.day /\ a.tod <= b.tod)

-----------------------------------------------------------------------------
(* re: a pattern is a sequence of tokens. "\\d" matches one digit, "(" and *)
(* ")" delimit group 1, any other token matches itself. This is the        *)
(* fragment the job configurations use (\d{8}, _(\d{8})_, ...).            *)

IsParen(t) == t = "(" \/ t = ")"
Atoms(rx) == SelectSeq(rx, LAMBDA t : ~IsParen(t))
AtomOk(t, c) == IF t = "\\d" THEN IsDigit(c) ELSE t = c

MatchAt(atoms, s, i) ==
    /\ i + Len(atoms) - 1 <= Len(s)
    /\ \A k \in 1..Len(atoms) : AtomOk(atoms[k], s[i + k - 1])

\* re.search(rx, s): the start of the leftmost match, 0 when there is none
ReSearch(rx, s) ==
    LET atoms == Atoms(rx)
        hits == {i \in 1..(Len(s) + 1) : MatchAt(atoms, s, i)}
    IN  IF hits = {} THEN 0 ELSE CHOOSE i \in hits : \A k \in hits : i <= k

\* A match that runs from i to the end of the string.
Group0ToEnd(rx, s, i) == SubSeq(s, i, Len(s))

\* match.group(0) of the match that starts at i
Group0(rx, s, i) == SubSeq(s, i, i + Len(Atoms(rx)) - 1)

HasGroup1(rx) == \E k \in 1..Len(rx) : rx[k] = "("

\* match.group(1) of the match that starts at i
Group1(rx, s, i) ==
    LET open == CHOOSE k \in 1..Len(rx) : rx[k] = "(" /\ \A j \in 1..(k - 1) : rx[j] # "("
        close == CHOOSE k \in 1..Len(rx) : rx[k] = ")" /\ \A j \in 1..(k - 1) : rx[j] # ")"
        before == Len(Atoms(SubSeq(rx, 1, open)))
        inside == Len(Atoms(SubSeq(rx, open, close)))
    IN  SubSeq(s, i + before, i + before + inside - 1)

\* re.sub(r"^\d+-", "", filename)
StripTimestamp(filename) ==
    LET run == {n \in 1..Len(filename) : AllDigits(SubSeq(filename, 1, n))}
        n == IF run = {} THEN 0 ELSE CHOOSE n \in run : \A k \in run : k <= n
    IN  IF n >= 1 /\ n < Len(filename) /\ filename[n + 1] = "-"
        THEN SubSeq(filename, n + 2, Len(filename))
        ELSE filename

-----------------------------------------------------------------------------
(* datetime.strptime: a format is a sequence of tokens, "%Y", "%m", "%d"   *)
(* or a literal character. As in _strptime.py, %Y is four digits, %m is    *)
(* 1[0-2]|0[1-9]|[1-9] and %d is 3[01]|[12]\d|0[1-9]|[1-9], tried in that   *)
(* order with backtracking; the day is then checked against the month.     *)

ParseFail == [ok |-> FALSE, y |-> 0, m |-> 0, d |-> 0]

RECURSIVE StrpMatch(_, _, _)
StrpMatch(s, fmt, acc) ==
    IF fmt = <<>> THEN (IF s = <<>> THEN acc ELSE ParseFail)
    ELSE LET t == Head(fmt)
             take(n, lo, hi, field) ==
                 IF Len(s) >= n /\ AllDigits(SubSeq(s, 1, n))
                    /\ NumVal(SubSeq(s, 1, n)) >= lo /\ NumVal(SubSeq(s, 1, n)) <= hi
                 THEN StrpMatch(SubSeq(s, n + 1, Len(s)), Tail(fmt),
                                [acc EXCEPT ![field] = NumVal(SubSeq(s, 1, n))])
                 ELSE ParseFail
         IN  IF t = "%Y" THEN take(4, 0, 9999, "y")
             ELSE IF t = "%m"
                  THEN LET two == IF Len(s) >= 2 /\ (s[1] = "0" \/ s[1] = "1")
                                  THEN take(2, 1, 12, "m") ELSE ParseFail
                       IN  IF two.ok THEN two ELSE take(1, 1, 9, "m")
             ELSE IF t = "%d"
                  THEN LET two == take(2, 1, 31, "d")
                       IN  IF two.ok THEN two ELSE take(1, 1, 9, "d")
             ELSE IF s # <<>> /\ Head(s) = t
                  THEN StrpMatch(Tail(s), Tail(fmt), acc)
                  ELSE ParseFail

\* datetime.datetime.strptime(s, fmt): [ok |-> FALSE] stands for ValueError
Strptime(s, fmt) ==
    LET r == StrpMatch(s, fmt, [ok |-> TRUE, y |-> 1900, m |-> 1, d |-> 1])
    IN  IF r.ok /\ r.d <= DaysInMonth(r.y, r.m) THEN r ELSE ParseFail

\* date.strftime("%Y"), ("%m"), ("%d")
StrfY(date) == NumStr(date.y, 4)
StrfM(date) == NumStr(date.m, 2)
StrfD(date) == NumStr(date.d, 2)

-----------------------------------------------------------------------------
(* crocus_file_curator.py                                                  *)

\* The result of a call: a value, or the exception that left it.
Ret(v) == [kind |-> "value", v |-> v, exc |-> "none"]
Raise(e) == [kind |-> "raise", v |-> NoneV, exc |-> e]

\* _extract_date_from_filename: e.kind = "value" with e.v = [none, date],
\* or "raise". re.search(None, ...) and strptime(..., None) raise TypeError,
\* which the except clause (ValueError, IndexError) does not catch.
extract_date_from_filename(filename, date_regex, date_format) ==
    IF date_regex = NoneV THEN Raise("TypeError")
    ELSE LET i == ReSearch(date_regex, filename)
         IN  IF i = 0 THEN Ret([none |-> TRUE, date |-> NoDate])
             ELSE IF date_format = NoneV THEN Raise("TypeError")
             ELSE LET r == Strptime(Group0(date_regex, filename, i), date_format)
                  IN  IF r.ok
                      THEN Ret([none |-> FALSE,
                                date |-> [y |-> r.y, m |-> r.m, d |-> r.d]])
                      ELSE Ret([none |-> TRUE, date |-> NoDate])

\* A _create_dated_folder with the layout of the fetcher: base/YYYYMM/YYYYMMDD
create_dated_folder_compact(base_path, date) ==
    JoinAll(base_path, <<StrfY(date) \o StrfM(date),
                         StrfY(date) \o StrfM(date) \o StrfD(date)>>)

\* _create_dated_folder of the curator: base/YYYY/MM/DD
create_dated_folder(base_path, date) ==
    JoinAll(base_path, <<StrfY(date), StrfM(date), StrfD(date)>>)

\* build_output_base
build_output_base(root_dir, upload_name, vsn, site, subfolder) ==
    LET s == IF Truthy(site) THEN site ELSE <<"U", "N", "K", "N", "O", "W", "N">>
        vsn_site_path == vsn \o <<"-">> \o s
    IN  JoinAll(root_dir, <<upload_name, vsn_site_path, subfolder>>)

\* resolve_output_path without the test of the mount prefix: a best-effort
\* guess for a path outside the mount directory.
resolve_output_path_unchecked(row, base, date, s) ==
    IF s.keep_original_path
    THEN IF "meta_original_path" \notin DOMAIN row THEN NoneV
         ELSE LET orig_path == row.meta_original_path
              IN  IF orig_path = NaN THEN NoneV
                  ELSE Join2(base, Dirname(LStrip(SubSeq(orig_path,
                                Len(s.mount_dir) + 1, Len(orig_path)), Sep)))
    ELSE IF s.group_by_date THEN create_dated_folder(base, date)
         ELSE base

\* resolve_output_path without the lstrip("/") of the relative path.
resolve_output_path_unstripped(row, base, date, s) ==
    IF s.keep_original_path
    THEN IF "meta_original_path" \notin DOMAIN row THEN NoneV
         ELSE LET orig_path == row.meta_original_path
              IN  IF orig_path = NaN THEN NoneV
                  ELSE IF ~StartsWith(orig_path, s.mount_dir) THEN NoneV
                  ELSE Join2(base, Dirname(SubSeq(orig_path, Len(s.mount_dir) + 1,
                                                  Len(orig_path))))
    ELSE IF s.group_by_date THEN create_dated_folder(base, date)
         ELSE base

\* resolve_output_path: a directory, or NoneV. A row is a record whose
\* DOMAIN holds the columns of the frame (meta_site for "meta.site", and so
\* on); a missing meta.original_path (KeyError) and a NaN one
\* (AttributeError) are both caught.
resolve_output_path(row, base, date, s) ==
    IF s.keep_original_path
    THEN IF "meta_original_path" \notin DOMAIN row THEN NoneV
         ELSE LET orig_path == row.meta_original_path
              IN  IF orig_path = NaN THEN NoneV
                  ELSE IF ~StartsWith(orig_path, s.mount_dir) THEN NoneV
                  ELSE LET rel_path ==
                               LStrip(SubSeq(orig_path, Len(s.mount_dir) + 1,
                                             Len(orig_path)), Sep)
                       IN  Join2(base, Dirname(rel_path))
    ELSE IF s.group_by_date THEN create_dated_folder(base, date)
         ELSE base

-----------------------------------------------------------------------------
(* The values the inputs are drawn from.                                   *)

\* --root-dir
root_dir == <<"/", "r">>

\* The scenario of the mirror policy: a file the node holds below /data.
ScenarioMountDir == <<"/", "d", "a", "t", "a">>
ScenarioOriginalPath == <<"/", "d", "a", "t", "a", "/", "r", "a", "w", "/", "2", "0", "2", "4", "/", "0", "7", "/", "0", "1", "/", "f", "o", "o", ".", "n", "c">>
ScenarioRelDir == <<"r", "a", "w", "/", "2", "0", "2", "4", "/", "0", "7", "/", "0", "1">>

UploadNames == {<<"u">>, <<".", ".">>, <<"/", "u">>}
Subfolders == {<<>>, <<"b">>, <<".", ".">>, <<".", ".", "/", ".", ".", "/", ".", ".">>, <<"/", "t">>}
Sites == {<<"s">>, <<>>}
MountDirs == {<<"/", "d">>, <<"/", "d", "/">>, ScenarioMountDir}
\* meta.original_path of a row; NoneV stands for a frame without the column.
OriginalPaths ==
    {NoneV, NaN, <<"/", "d", "/", "a", "/", "f">>, <<"/", "d", "/", "f">>, <<"/", "d", "/", "/", "a", "/", "f">>, <<"/", "d", "b", "/", "f">>, <<"/", "e", "/", "a", "/", "f">>,
     <<"/", "d", "/", ".", ".", "/", ".", ".", "/", ".", ".", "/", ".", ".", "/", "x", "/", "f">>, ScenarioOriginalPath}
ProbeDates == {[y |-> 2024, m |-> 7, d |-> 1]}

\* A row of a query result with the given columns; NoneV leaves
\* "meta.original_path" out of the frame.
Row(value, site, orig) ==
    IF orig = NoneV
    THEN [value |-> value, meta_site |-> site]
    ELSE [value |-> value, meta_site |-> site, meta_original_path |-> orig]

-----------------------------------------------------------------------------
(* beehive_file_fetcher.py                                                 *)

\* An extension setting: absent/None, a string, or a list of strings.
NoExt == [type |-> "none", v |-> <<>>]
ExtStr(s) == [type |-> "str", v |-> s]
ExtList(l) == [type |-> "list", v |-> l]

\* What a GET and the write of its body can do: 200 and a complete body;
\* a status other than 200; an exception of requests.get; an exception
\* once the destination has been opened "wb" and part of the body written.
HttpOutcomes == {"ok", "status", "transport", "partial"}

\* The content a fetch of url leaves at its destination.
Body(url, full) == [src |-> url, full |-> full]
OldContent == Body(<<"old">>, TRUE)

\* s[a:b] of Python, a and b counted from 0
Slice(s, a, b) == SubSeq(s, a + 1, IF b <= Len(s) THEN b ELSE Len(s))

RECURSIVE Unique(_, _)
\* Series.unique(): the values in order of first appearance
Unique(s, seen) ==
    IF s = <<>> THEN <<>>
    ELSE IF Head(s) \in seen THEN Unique(Tail(s), seen)
    ELSE <<Head(s)>> \o Unique(Tail(s), seen \cup {Head(s)})

\* _create_dated_folder of the fetcher: base/YYYYMM/YYYYMMDD from the slices
fetcher_create_dated_folder(base_path, date_str) ==
    LET year == Slice(date_str, 0, 4)
        month == Slice(date_str, 4, 6)
        day == Slice(date_str, 6, 8)
    IN  JoinAll(base_path, <<year \o month, year \o month \o day>>)

\* extract(filename) of _compile_date_extractor: group 1 of the first match,
\* None without a match, IndexError when the pattern has no group.
extract(date_regex, filename) ==
    LET i == ReSearch(date_regex, filename)
    IN  IF i = 0 THEN Ret(NoneV)
        ELSE IF ~HasGroup1(date_regex) THEN Raise("IndexError")
        ELSE Ret(Group1(date_regex, filename, i))

\* Lines 44-53 of download_beehive_files: the urls the loop will visit.
\* Series.str.endswith accepts a string (or a tuple) and raises TypeError
\* for a list; re.compile(None) raises TypeError.
SelectUrls(frame, opts) ==
    IF frame.rows = <<>> \/ "value" \notin frame.cols THEN Ret(<<>>)
    ELSE LET all == [i \in 1..Len(frame.rows) |-> frame.rows[i].value]
             ext == opts.extension_filter
             truthy == ext.type # "none" /\ ext.v # <<>>
         IN  IF truthy /\ ext.type = "list" THEN Raise("TypeError")
             ELSE IF opts.group_by_date /\ opts.date_regex = NoneV
                  THEN Raise("TypeError")
             ELSE Ret(Unique(IF truthy
                             THEN SelectSeq(all, LAMBDA u : EndsWith(u, ext.v))
                             ELSE all, {}))

\* The "skip if it exists" test of line 74.
ShouldSkipNever(skip_if_exists, target_path, fs) == FALSE
ShouldSkipInverted(skip_if_exists, target_path, fs) ==
    skip_if_exists /\ target_path \notin DOMAIN fs
ShouldSkip(skip_if_exists, target_path, fs) ==
    skip_if_exists /\ target_path \in DOMAIN fs

\* A _fetch_and_save_file that returns True whatever the GET did.
fetch_and_save_file_always_true(url, filepath, fs, http) ==
    IF http = "ok"
    THEN [files |-> [p \in DOMAIN fs \cup {filepath} |->
                        IF p = filepath THEN Body(url, TRUE) ELSE fs[p]],
          saved |-> TRUE]
    ELSE [files |-> fs, saved |-> TRUE]

\* _fetch_and_save_file: the file tree it leaves, and whether it returns True
fetch_and_save_file(url, filepath, fs, http) ==
    IF http = "ok"
    THEN [files |-> [p \in DOMAIN fs \cup {filepath} |->
                        IF p = filepath THEN Body(url, TRUE) ELSE fs[p]],
          saved |-> TRUE]
    ELSE IF http = "partial"
    THEN [files |-> [p \in DOMAIN fs \cup {filepath} |->
                        IF p = filepath THEN Body(url, FALSE) ELSE fs[p]],
          saved |-> FALSE]
    ELSE [files |-> fs, saved |-> FALSE]

\* An iteration that appends its path to saved_files whatever its outcome.
StepAlwaysSaved(kind, outcome, path, fs, ds, fetch, saved) ==
    [kind |-> kind, outcome |-> outcome, path |-> path, files |-> fs,
     dirs |-> ds, fetch |-> fetch, saved |-> TRUE]

\* What one iteration of the loop of download_beehive_files does.
Step(kind, outcome, path, fs, ds, fetch, saved) ==
    [kind |-> kind, outcome |-> outcome, path |-> path, files |-> fs,
     dirs |-> ds, fetch |-> fetch, saved |-> saved]

\* The iteration without the test of dry_run: a dry run that downloads.
DownloadUrlIgnoringDryRun(url, destination, opts, fs, ds, http) ==
    LET original_filename == Basename(url)
        filename == IF opts.rename THEN StripTimestamp(original_filename)
                    ELSE original_filename
        ex == IF opts.group_by_date THEN extract(opts.date_regex, filename)
              ELSE Ret(NoneV)
    IN  IF ex.kind = "raise"
        THEN Step(ex.exc, "raised", NoneV, fs, ds, FALSE, FALSE)
        ELSE IF opts.group_by_date /\ ~Truthy(ex.v)
        THEN Step("continue", "skipped-no-date", NoneV, fs, ds, FALSE, FALSE)
        ELSE LET target_folder == IF opts.group_by_date
                                  THEN fetcher_create_dated_folder(destination, ex.v)
                                  ELSE destination
                 made == ds \cup {target_folder}
                 target_path == Join2(target_folder, filename)
             IN  IF ShouldSkip(opts.skip_if_exists, target_path, fs)
                 THEN Step("continue", "skipped-exists", target_path, fs, made,
                           FALSE, FALSE)
                 ELSE LET r == fetch_and_save_file(url, target_path, fs, http)
                      IN  Step("continue",
                               IF r.saved THEN "downloaded" ELSE "failed-http",
                               target_path, r.files, made, TRUE, r.saved)

\* The iteration with dry_run tested before the file is looked for.
DownloadUrlDryRunFirst(url, destination, opts, fs, ds, http) ==
    LET original_filename == Basename(url)
        filename == IF opts.rename THEN StripTimestamp(original_filename)
                    ELSE original_filename
        ex == IF opts.group_by_date THEN extract(opts.date_regex, filename)
              ELSE Ret(NoneV)
    IN  IF ex.kind = "raise"
        THEN Step(ex.exc, "raised", NoneV, fs, ds, FALSE, FALSE)
        ELSE IF opts.group_by_date /\ ~Truthy(ex.v)
        THEN Step("continue", "skipped-no-date", NoneV, fs, ds, FALSE, FALSE)
        ELSE LET target_folder == IF opts.group_by_date
                                  THEN fetcher_create_dated_folder(destination, ex.v)
                                  ELSE destination
                 made == ds \cup {target_folder}
                 target_path == Join2(target_folder, filename)
             IN  IF opts.dry_run
                 THEN Step("continue", "dry-run-would-download", target_path, fs,
                           made, FALSE, TRUE)
                 ELSE IF ShouldSkip(opts.skip_if_exists, target_path, fs)
                 THEN Step("continue", "skipped-exists", target_path, fs, made,
                           FALSE, FALSE)
                 ELSE LET r == fetch_and_save_file(url, target_path, fs, http)
                      IN  Step("continue",
                               IF r.saved THEN "downloaded" ELSE "failed-http",
                               target_path, r.files, made, TRUE, r.saved)

\* One iteration of `for url in urls` (lines 56-84), with the outcome http
\* of the GET should one be issued.
DownloadUrl(url, destination, opts, fs, ds, http) ==
    LET original_filename == Basename(url)
        filename == IF opts.rename THEN StripTimestamp(original_filename)
                    ELSE original_filename
        ex == IF opts.group_by_date THEN extract(opts.date_regex, filename)
              ELSE Ret(NoneV)
    IN  IF ex.kind = "raise"
        THEN Step(ex.exc, "raised", NoneV, fs, ds, FALSE, FALSE)
        ELSE IF opts.group_by_date /\ ~Truthy(ex.v)
        THEN Step("continue", "skipped-no-date", NoneV, fs, ds, FALSE, FALSE)
        ELSE LET target_folder == IF opts.group_by_date
                                  THEN fetcher_create_dated_folder(destination, ex.v)
                                  ELSE destination
                 made == ds \cup {target_folder}
                 target_path == Join2(target_folder, filename)
             IN  IF ShouldSkip(opts.skip_if_exists, target_path, fs)
                 THEN Step("continue", "skipped-exists", target_path, fs, made,
                           FALSE, FALSE)
                 ELSE IF opts.dry_run
                 THEN Step("continue", "dry-run-would-download", target_path, fs,
                           made, FALSE, TRUE)
                 ELSE LET r == fetch_and_save_file(url, target_path, fs, http)
                      IN  Step("continue",
                               IF r.saved THEN "downloaded" ELSE "failed-http",
                               target_path, r.files, made, TRUE, r.saved)

-----------------------------------------------------------------------------
(* Values of the variables an operation under study does not use.          *)

NoConfig == [username |-> <<>>, password |-> <<>>, jobs |-> <<>>]
NoArgs == [dry_run |-> FALSE, test_run |-> FALSE, job |-> NoneV]
NoSettings == [job_name |-> NoneV]
NoProbe == [done |-> FALSE]
NoDl == [phase |-> "none"]

RunnerIdle ==
    /\ config = NoConfig /\ args = NoArgs
    /\ ji = 0 /\ settings = NoSettings /\ windows = <<>> /\ wi = 0 /\ rows = <<>>
    /\ queried = <<>>

RunnerUnchanged == UNCHANGED <<config, args, ji, settings, windows, wi, rows, queried>>

-----------------------------------------------------------------------------
(* OutputPathResolver on its own: build_output_base and                    *)
(* resolve_output_path applied to one row under one job configuration.     *)

ProbeVsn == <<"v">>
ProbeUrl == <<"h", "/", "1", "-", "a", "_", "2", "0", "2", "4", "0", "7", "0", "1", ".", "n">>

InitPath ==
    /\ RunnerIdle
    /\ pc = "resolve"
    /\ files = <<>> /\ dirs = {} /\ outcomes = <<>> /\ fetched = <<>>
    /\ exc = "none" /\ dl = NoDl
    /\ \E u \in UploadNames, sub \in Subfolders, site \in Sites,
          m \in MountDirs, o \in OriginalPaths, k \in BOOLEAN, g \in BOOLEAN,
          date \in ProbeDates :
          probe = [upload_name |-> u, subfolder |-> sub, site |-> site,
                   mount_dir |-> m, orig |-> o, keep_original_path |-> k,
                   group_by_date |-> g, date |-> date,
                   base |-> NoneV, out |-> NoneV, done |-> FALSE]

\* Lines 150 and 160 of process_site_data for one row.
ResolveProbe ==
    /\ pc = "resolve" /\ ~probe.done
    /\ LET base == build_output_base(root_dir, probe.upload_name, ProbeVsn,
                                   probe.site, probe.subfolder)
           row == Row(ProbeUrl, probe.site, probe.orig)
       IN  probe' = [probe EXCEPT
                        !.base = base,
                        !.out = resolve_output_path(row, base, probe.date, probe),
                        !.done = TRUE]
    /\ UNCHANGED <<config, args, pc, ji, settings, windows, wi, rows, files,
                   dirs, queried, outcomes, fetched, exc, dl>>

NextPath == ResolveProbe

SpecPath == InitPath /\ [][NextPath]_vars

\* The resolver was applied and returned a directory.
Resolved == pc = "resolve" /\ probe.done /\ probe.out # NoneV

\* C3: for every record and every job configuration, the directory that
\* resolve_output_path returns over build_output_base is inside the root.
PathContainment == Resolved => Inside(root_dir, probe.out)

\* The text of original_path after the mount prefix and the separators
\* that follow it, stated on the text itself: original_path is
\* mount_dir, then k separators, then rel, and rel starts with no separator.
MirrorRel(orig, mount) ==
    CHOOSE rel \in {SubSeq(orig, i, Len(orig)) : i \in 1..(Len(orig) + 1)} :
        /\ rel = <<>> \/ Head(rel) # Sep
        /\ \E k \in 0..Len(orig) :
              orig = mount \o [i \in 1..k |-> Sep] \o rel

\* The containing directory of a relative path: what precedes its last
\* separator, without the separators that end it.
ContainingDir(rel) ==
    IF \A i \in 1..Len(rel) : rel[i] # Sep THEN <<>>
    ELSE LET last == CHOOSE i \in 1..Len(rel) :
                        rel[i] = Sep /\ \A j \in (i + 1)..Len(rel) : rel[j] # Sep
             cut == CHOOSE n \in 0..last :
                        /\ \A j \in (n + 1)..last : rel[j] = Sep
                        /\ n = 0 \/ rel[n] # Sep
         IN  SubSeq(rel, 1, cut)

\* The mirror policy was requested and original_path starts with mount_dir.
MirrorApplies ==
    /\ pc = "resolve" /\ probe.done /\ probe.keep_original_path
    /\ probe.orig # NoneV /\ probe.orig # NaN
    /\ StartsWith(probe.orig, probe.mount_dir)

\* C5 as stated: under the mirror policy the destination directory is the
\* root joined with the containing directory of original_path after the
\* mount prefix and the leading separators are removed; for
\* /data/raw/2024/07/01/foo.nc under /data it is root/raw/2024/07/01.
MirrorDestinationUnderRoot ==
    MirrorApplies =>
        /\ probe.out =
              Join2(root_dir, ContainingDir(MirrorRel(probe.orig, probe.mount_dir)))
        /\ (probe.orig = ScenarioOriginalPath /\ probe.mount_dir = ScenarioMountDir)
              => probe.out = root_dir \o <<Sep>> \o ScenarioRelDir

\* C5 as the code has it: the destination directory is the job's output
\* base, root/<upload_name>/<vsn>-<site>/<subfolder>, joined with the
\* containing directory of original_path after the mount prefix and the
\* leading separators are removed; for /data/raw/2024/07/01/foo.nc under /data,
\* upload_name u, device v, site s and subfolder b it is
\* root/u/v-s/b/raw/2024/07/01.
MirrorDestinationUnderBase ==
    MirrorApplies =>
        /\ probe.out =
              Join2(probe.base, ContainingDir(MirrorRel(probe.orig, probe.mount_dir)))
        /\ (/\ probe.orig = ScenarioOriginalPath
            /\ probe.mount_dir = ScenarioMountDir
            /\ probe.upload_name = <<"u">> /\ probe.site = <<"s">>
            /\ probe.subfolder = <<"b">>)
              => probe.out = <<"/", "r", "/", "u", "/", "v", "-", "s", "/", "b", "/", "r", "a", "w", "/", "2", "0", "2", "4", "/", "0", "7", "/", "0", "1">>

\* A state where the mirror policy resolved the scenario's record.
MirrorScenarioResolved ==
    /\ MirrorApplies
    /\ probe.orig = ScenarioOriginalPath /\ probe.mount_dir = ScenarioMountDir
    /\ probe.upload_name = <<"u">> /\ probe.site = <<"s">> /\ probe.subfolder = <<"b">>
    /\ probe.out # NoneV

-----------------------------------------------------------------------------
(* IdempotentDownloader on its own: download_beehive_files called MaxRuns  *)
(* times over the same records, destination and options. dl holds the      *)
(* call: its arguments, the urls of the loop, the index ui of the next     *)
(* one, saved_files, the number of the run, and the file tree before the   *)
(* first run and as the first run left it.                                 *)

Url1 == <<"h", "/", "1", "-", "a", "_", "2", "0", "2", "4", "0", "7", "0", "1", ".", "n">>
\* The same file name as Url1 once the rename rule has removed the prefix.
Url2 == <<"h", "/", "2", "-", "a", "_", "2", "0", "2", "4", "0", "7", "0", "1", ".", "n">>
\* No date in the name, another extension.
Url3 == <<"h", "/", "3", "-", "b", ".", "t">>

DlDestination == <<"/", "r", "/", "o">>

Frame(cols, rs) == [cols |-> cols, rows |-> rs]
AllCols == {"value", "meta_site", "meta_original_path"}

DlFrames ==
    { Frame(AllCols, <<Row(Url1, <<"s">>, <<"/", "d", "/", "a", "/", "f">>)>>),
      Frame(AllCols, <<Row(Url1, <<"s">>, <<"/", "d", "/", "a", "/", "f">>), Row(Url2, <<"s">>, <<"/", "d", "/", "a", "/", "f">>)>>),
      Frame(AllCols, <<Row(Url1, <<"s">>, <<"/", "d", "/", "a", "/", "f">>), Row(Url3, <<"s">>, <<"/", "d", "/", "a", "/", "f">>),
                       Row(Url1, <<"s">>, <<"/", "d", "/", "a", "/", "f">>)>>),
      Frame(AllCols, <<>>),
      Frame({"meta_site"}, <<[meta_site |-> <<"s">>]>>) }

\* \d{8} and _(\d{8})
Rx8 == <<"\\d", "\\d", "\\d", "\\d", "\\d", "\\d", "\\d", "\\d">>
Rx8Group == <<"_", "(">> \o Rx8 \o <<")">>

DlExtensions == {NoExt, ExtStr(<<".", "n">>), ExtList(<<<<".", "n">>>>)}
DlGrouping ==
    {<<FALSE, NoneV>>, <<TRUE, NoneV>>, <<TRUE, <<>>>>, <<TRUE, Rx8>>,
     <<TRUE, Rx8Group>>}

\* The tree before the first run: empty, or holding a file where the first
\* record of an ungrouped, unrenamed run is saved.
DlTrees ==
    { <<>>, [p \in {Join2(DlDestination, Basename(Url1))} |-> OldContent] }

InitDl ==
    /\ RunnerIdle
    /\ pc = "download"
    /\ files \in DlTrees
    /\ dirs = {} /\ outcomes = <<>> /\ fetched = <<>>
    /\ exc = "none" /\ probe = NoProbe
    /\ \E f \in DlFrames, e \in DlExtensions, g \in DlGrouping,
          skip \in BOOLEAN, ren \in BOOLEAN, dry \in BOOLEAN :
          dl = [frame |-> f, destination |-> DlDestination,
                opts |-> [extension_filter |-> e, group_by_date |-> g[1],
                          date_regex |-> g[2], skip_if_exists |-> skip,
                          rename |-> ren, dry_run |-> dry],
                urls |-> <<>>, ui |-> 0, saved_files |-> <<>>, run |-> 1,
                phase |-> "call", before |-> files, first |-> <<>>]

\* Lines 44-54: the call up to the loop.
DlCall ==
    /\ pc = "download" /\ dl.phase = "call"
    /\ LET r == SelectUrls(dl.frame, dl.opts)
       IN  IF r.kind = "raise"
           THEN /\ dl' = [dl EXCEPT !.phase = "raised"]
                /\ exc' = r.exc
           ELSE /\ dl' = [dl EXCEPT !.urls = r.v, !.ui = 1, !.saved_files = <<>>,
                                    !.phase = "loop"]
                /\ exc' = exc
    /\ RunnerUnchanged
    /\ UNCHANGED <<pc, files, dirs, outcomes, fetched, probe>>

\* Lines 56-84: one iteration of the loop over the urls.
DlLoop ==
    /\ pc = "download" /\ dl.phase = "loop" /\ dl.ui <= Len(dl.urls)
    /\ \E http \in HttpOutcomes :
          LET url == dl.urls[dl.ui]
              s == DownloadUrl(url, dl.destination, dl.opts, files, dirs, http)
          IN  /\ files' = s.files
              /\ dirs' = s.dirs
              /\ outcomes' = Append(outcomes,
                    [run |-> dl.run, url |-> url, path |-> s.path,
                     outcome |-> s.outcome])
              /\ fetched' = IF s.fetch
                            THEN Append(fetched, [run |-> dl.run, url |-> url,
                                                  path |-> s.path, http |-> http])
                            ELSE fetched
              /\ IF s.kind = "continue"
                 THEN /\ dl' = [dl EXCEPT
                                  !.ui = @ + 1,
                                  !.saved_files = IF s.saved THEN Append(@, s.path)
                                                  ELSE @]
                      /\ exc' = exc
                 ELSE /\ dl' = [dl EXCEPT !.phase = "raised"]
                      /\ exc' = s.kind
    /\ RunnerUnchanged
    /\ UNCHANGED <<pc, probe>>

\* Lines 86-87: the summary and the return of saved_files.
DlReturn ==
    /\ pc = "download" /\ dl.phase = "loop" /\ dl.ui > Len(dl.urls)
    /\ dl' = [dl EXCEPT !.phase = "returned",
                        !.first = IF dl.run = 1 THEN files ELSE @]
    /\ RunnerUnchanged
    /\ UNCHANGED <<pc, files, dirs, outcomes, fetched, exc, probe>>

\* The operator runs the same job again.
DlAgain ==
    /\ pc = "download" /\ dl.phase = "returned" /\ dl.run < MaxRuns
    /\ dl' = [dl EXCEPT !.phase = "call", !.run = @ + 1]
    /\ RunnerUnchanged
    /\ UNCHANGED <<pc, files, dirs, outcomes, fetched, exc, probe>>

NextDl == DlCall \/ DlLoop \/ DlReturn \/ DlAgain

SpecDl == InitDl /\ [][NextDl]_vars

\* The outcomes of run r, in processing order.
OutcomesOf(r) == SelectSeq(outcomes, LAMBDA o : o.run = r)

\* The second of two runs with skip_if_exists=true has returned.
SecondRunReturned ==
    /\ pc = "download" /\ dl.phase = "returned" /\ dl.run = 2
    /\ dl.opts.skip_if_exists

\* C1 as stated: after the second of two runs over the same record set with
\* skip_if_exists=true the on-disk output is identical to the output after
\* run 1, and run 2 has no 'downloaded' outcome, only 'skipped-exists'.
IdempotentRerun ==
    SecondRunReturned =>
        /\ files = dl.first
        /\ \A i \in 1..Len(OutcomesOf(2)) :
              OutcomesOf(2)[i].outcome = "skipped-exists"

\* C1 as the code has it: run 2 leaves every file that exists after run 1
\* unchanged, and every record whose destination file exists after run 1
\* ends run 2 as 'skipped-exists'; when every record of run 1 ended as
\* 'downloaded' or 'skipped-exists', the output after run 2 is identical to
\* the output after run 1 and run 2 has only 'skipped-exists' outcomes.
RerunKeepsWhatExists ==
    SecondRunReturned =>
        /\ \A p \in DOMAIN dl.first : p \in DOMAIN files /\ files[p] = dl.first[p]
        /\ \A i \in 1..Len(OutcomesOf(2)) :
              LET o == OutcomesOf(2)[i]
              IN  (o.path # NoneV /\ o.path \in DOMAIN dl.first)
                     => o.outcome = "skipped-exists"
        /\ (\A i \in 1..Len(OutcomesOf(1)) :
               OutcomesOf(1)[i].outcome \in {"downloaded", "skipped-exists"})
              => /\ files = dl.first
                 /\ \A i \in 1..Len(OutcomesOf(2)) :
                       OutcomesOf(2)[i].outcome = "skipped-exists"

\* Run 1 downloaded a record and run 2 skipped it.
RerunSkippedADownload ==
    /\ SecondRunReturned
    /\ \E i \in 1..Len(OutcomesOf(1)), k \in 1..Len(OutcomesOf(2)) :
          /\ OutcomesOf(1)[i].outcome = "downloaded"
          /\ OutcomesOf(2)[k].outcome = "skipped-exists"
          /\ OutcomesOf(2)[k].url = OutcomesOf(1)[i].url

\* C2: with skip_if_exists=true, over any sequence of runs, a file that
\* exists at a record's destination path when the record is processed is
\* not fetched and not opened for writing: no step issues a GET for a path
\* that holds a file, and every file keeps its content.
AtMostOnce ==
    [][(pc = "download" /\ dl.opts.skip_if_exists) =>
          /\ \A p \in DOMAIN files : p \in DOMAIN files' /\ files'[p] = files[p]
          /\ Len(fetched') > Len(fetched)
                => fetched'[Len(fetched')].path \notin DOMAIN files]_vars

\* A record was processed while a file stood at its destination, and the
\* file still has the content it had before the first run.
ExistingFileSkipped ==
    /\ pc = "download" /\ dl.opts.skip_if_exists /\ dl.run = 2
    /\ \E i \in 1..Len(outcomes) :
          /\ outcomes[i].outcome = "skipped-exists"
          /\ outcomes[i].run = 2
          /\ files[outcomes[i].path] = OldContent

-----------------------------------------------------------------------------
(* crocus_file_curator.py: date_range_loop and parse_job_settings          *)

Instant(day, tod) == [day |-> day, tod |-> tod]

\* A date range that always holds its start.
DateRangeAtLeastOne(cur, end) ==
    <<cur>> \o [i \in 1..(IF InstantLeq(cur, end) THEN end.day - cur.day ELSE 0)
                  |-> Instant(cur.day + i, cur.tod)]

RECURSIVE DateRange(_, _)
\* pd.date_range(start=cur, end=end): cur, cur + 1 day, ... while <= end
DateRange(cur, end) ==
    IF InstantLeq(cur, end)
    THEN <<cur>> \o DateRange(Instant(cur.day + 1, cur.tod), end)
    ELSE <<>>

\* day.strftime("%Y-%m-%dT00:00:00Z") and day.strftime("%Y-%m-%dT23:59:59Z")
DayStart(t) == Instant(t.day, 0)
DayEnd(t) == Instant(t.day, TicksPerDay - 1)

\* date_range_loop: one (s, e) pair per element of the date range
date_range_loop(start, end) ==
    LET days == DateRange(start, end)
    IN  [i \in 1..Len(days) |-> <<DayStart(days[i]), DayEnd(days[i])>>]

\* datetime.now(timezone.utc).strftime("%Y-%m-%d"): the day the job runs
Today == MaxDay

MandatoryKeys == {"job", "upload_name", "vsn", "start_date"}

\* parse_job_settings: job["job"], job["upload_name"], job["vsn"] and
\* job["start_date"] raise KeyError when the key is missing.
parse_job_settings(job) ==
    IF ~(MandatoryKeys \subseteq DOMAIN job) THEN Raise("KeyError")
    ELSE LET e0 == Get(job, "extension", ExtList(<<>>))
             e1 == IF e0.type = "str" THEN ExtList(<<e0.v>>) ELSE e0
         IN  Ret([job_name |-> job.job,
                  upload_name |-> job.upload_name,
                  vsn |-> job.vsn,
                  start_date |-> job.start_date,
                  end_date |-> IF "end_date" \in DOMAIN job THEN job.end_date
                               ELSE Instant(Today, 0),
                  date_regex |-> Get(job, "date_regex", NoneV),
                  date_format |-> Get(job, "date_format", NoneV),
                  extension |-> IF e1.v = <<>> THEN NoExt ELSE e1,
                  group_by_date |-> Get(job, "group_by_date", TRUE),
                  keep_original_path |-> Get(job, "keep_original_path", FALSE),
                  mount_dir |-> Get(job, "mount_dir", <<"/", "d", "a", "t", "a">>),
                  subfolder |-> Get(job, "subfolder", <<>>),
                  rename |-> ~Get(job, "waggle_filename_timestamp", TRUE)])

-----------------------------------------------------------------------------
(* The job runner: the configurations, the catalog and the steps of        *)
(* run_download_jobs.                                                      *)

\* %Y%m%d
FormatYmd == <<"%Y", "%m", "%d">>

\* The calendar date of a day ordinal: ordinal 0 is 2024-07-01.
DayDate(o) == [y |-> 2024, m |-> 7, d |-> 1 + o]
DateText(date) == StrfY(date) \o StrfM(date) \o StrfD(date)

\* A job that groups by date, over day 1.
JobGrouped ==
    [job |-> <<"a">>, upload_name |-> <<"u">>, vsn |-> <<"v">>,
     start_date |-> Instant(1, 0), end_date |-> Instant(1, 0),
     date_regex |-> Rx8, date_format |-> FormatYmd]
\* A job that mirrors the original path below /d, over the days 0 and 1.
JobMirror ==
    [job |-> <<"b">>, upload_name |-> <<"u">>, vsn |-> <<"v">>,
     start_date |-> Instant(0, 0), end_date |-> Instant(1, 1),
     date_regex |-> Rx8, date_format |-> FormatYmd,
     keep_original_path |-> TRUE, mount_dir |-> <<"/", "d">>]
\* A job that mirrors and configures no date_regex and no date_format.
JobNoRegex ==
    [job |-> <<"c">>, upload_name |-> <<"u">>, vsn |-> <<"v">>,
     start_date |-> Instant(1, 0), end_date |-> Instant(1, 0),
     keep_original_path |-> TRUE, mount_dir |-> <<"/", "d">>]
\* A job without its name.
JobNoName ==
    [upload_name |-> <<"u">>, vsn |-> <<"v">>,
     start_date |-> Instant(1, 0), end_date |-> Instant(1, 0),
     date_regex |-> Rx8, date_format |-> FormatYmd]
\* A job whose end_date precedes its start_date.
JobBackwards ==
    [job |-> <<"d">>, upload_name |-> <<"u">>, vsn |-> <<"v">>,
     start_date |-> Instant(1, 0), end_date |-> Instant(0, 1),
     date_regex |-> Rx8, date_format |-> FormatYmd, group_by_date |-> FALSE]
\* A job without an end_date, started the day before the run, that groups
\* by date below a subfolder.
JobOpenEnded ==
    [job |-> <<"e">>, upload_name |-> <<"u">>, vsn |-> <<"v">>,
     start_date |-> Instant(Today - 1, 0),
     date_regex |-> Rx8, date_format |-> FormatYmd, subfolder |-> <<"b">>]
\* A job that accepts one extension and does not group by date.
JobExtension ==
    [job |-> <<"f">>, upload_name |-> <<"u">>, vsn |-> <<"v">>,
     start_date |-> Instant(1, 0), end_date |-> Instant(1, 0),
     date_regex |-> Rx8, date_format |-> FormatYmd,
     extension |-> ExtStr(<<".", "n">>), group_by_date |-> FALSE]

JobCatalog ==
    {JobGrouped, JobMirror, JobNoRegex, JobNoName, JobBackwards, JobOpenEnded,
     JobExtension}

\* The jobs that follow the first job of a configuration file.
LaterJobs == {JobGrouped}

\* The configuration files: up to MaxJobs jobs, a first job of any kind
\* and then jobs of LaterJobs, with or without a password.
Configs ==
    { [username |-> <<"n">>, password |-> pw, jobs |-> js] :
        pw \in {<<"p">>, <<>>},
        js \in UNION { {f \in [1..n -> JobCatalog] :
                          \A i \in 2..n : f[i] \in LaterJobs} : n \in 1..MaxJobs } }

JobFilters == {NoneV, <<"a">>, <<"b">>}

\* What sage_data_client.query can answer for one day: no row; a frame
\* without the meta columns; one record; or three records of two sites, the
\* first without a date in its name, the second with an original path
\* outside the mount directory and the third without an original path.
DatedUrl(prefix, day) == prefix \o DateText(DayDate(day)) \o <<".", "n">>
FullCols == {"value", "meta_site", "meta_sensor", "meta_original_path"}
SRow(value, site, orig) ==
    [value |-> value, meta_site |-> site, meta_sensor |-> <<"c">>,
     meta_original_path |-> orig]

EmptyAnswer == Frame(FullCols, <<>>)
NoMetaAnswer(day) == Frame({"value"}, <<[value |-> DatedUrl(<<"h", "/", "1", "-", "a", "_">>, day)]>>)
OneRecordAnswer(day) ==
    Frame(FullCols, <<SRow(DatedUrl(<<"h", "/", "1", "-", "a", "_">>, day), <<"s">>, <<"/", "d", "/", "a", "/", "f">>)>>)
MixedAnswer(day) ==
    Frame(FullCols, <<SRow(<<"h", "/", "3", "-", "b", ".", "n">>, <<"s">>, <<"/", "d", "/", "a", "/", "g">>),
                      SRow(DatedUrl(<<"h", "/", "1", "-", "a", "_">>, day), <<"s">>, <<"/", "e", "/", "a", "/", "f">>),
                      SRow(DatedUrl(<<"h", "/", "2", "-", "a", "_">>, day), <<"t">>, NaN)>>)

\* Three records: one of site s, one of site t whose file is of the day
\* before the window (written across midnight), one without a site.
SitesAnswer(day) ==
    Frame(FullCols, <<SRow(DatedUrl(<<"h", "/", "1", "-", "a", "_">>, day), <<"s">>, <<"/", "d", "/", "a", "/", "f">>),
                      SRow(DatedUrl(<<"h", "/", "2", "-", "a", "_">>, day - 1), <<"t">>, <<"/", "d", "/", "a", "/", "f">>),
                      SRow(DatedUrl(<<"h", "/", "4", "-", "a", "_">>, day), NaN, <<"/", "d", "/", "a", "/", "f">>)>>)

\* The answers the catalog can give for a day; day 0 is the day the node
\* came up, with no answer of one record and none without meta columns;
\* the day of the run has no record yet, or one.
QueryAnswers(day) ==
    IF day = 0 THEN {EmptyAnswer, MixedAnswer(day)}
    ELSE IF day = Today THEN {EmptyAnswer, OneRecordAnswer(day)}
    ELSE {EmptyAnswer, NoMetaAnswer(day), OneRecordAnswer(day), MixedAnswer(day),
          SitesAnswer(day)}

\* The outcomes of a GET in a run of the job runner: the two the runner can
\* tell apart, a file saved or none (SpecDl gives the fetcher all of them).
RunnerHttp == {"ok", "status"}

Init ==
    /\ config \in Configs
    /\ args \in [dry_run : BOOLEAN, test_run : BOOLEAN, job : JobFilters]
    /\ pc = "start"
    /\ ji = 0 /\ settings = NoSettings /\ windows = <<>> /\ wi = 0 /\ rows = <<>>
    /\ files = <<>> /\ dirs = {}
    /\ queried = <<>> /\ outcomes = <<>> /\ fetched = <<>>
    /\ exc = "none" /\ probe = NoProbe /\ dl = NoDl

\* Lines 180-186: without a username or a password the run returns.
RunStart ==
    /\ pc = "start"
    /\ IF ~Truthy(config.username) \/ ~Truthy(config.password)
       THEN pc' = "done" /\ ji' = ji
       ELSE pc' = "jobs" /\ ji' = 1
    /\ UNCHANGED <<config, args, settings, windows, wi, rows, files, dirs,
                   queried, outcomes, fetched, exc, probe, dl>>

\* The --job filter of lines 190-191: the job is passed over.
SkipJobNever(selected_job, job_name) == FALSE
SkipJob(selected_job, job_name) ==
    Truthy(selected_job) /\ job_name # selected_job

\* Lines 188-195: the next job of the loop: its settings, the name filter
\* and its day windows.
JobStart ==
    /\ pc = "jobs" /\ ji <= Len(config.jobs)
    /\ LET r == parse_job_settings(config.jobs[ji])
       IN  IF r.kind = "raise"
           THEN /\ pc' = "crashed" /\ exc' = r.exc
                /\ UNCHANGED <<ji, settings, windows, wi>>
           ELSE IF SkipJob(args.job, r.v.job_name)
           THEN /\ ji' = ji + 1
                /\ UNCHANGED <<pc, exc, settings, windows, wi>>
           ELSE /\ settings' = r.v
                /\ windows' = date_range_loop(r.v.start_date, r.v.end_date)
                /\ wi' = 1
                /\ pc' = "days"
                /\ UNCHANGED <<ji, exc>>
    /\ UNCHANGED <<config, args, rows, files, dirs, queried, outcomes, fetched,
                   probe, dl>>

\* The loop over the jobs is exhausted: run_download_jobs returns.
RunEnd ==
    /\ pc = "jobs" /\ ji > Len(config.jobs)
    /\ pc' = "done"
    /\ UNCHANGED <<config, args, ji, settings, windows, wi, rows, files, dirs,
                   queried, outcomes, fetched, exc, probe, dl>>

RECURSIVE SiteRows(_, _, _)
\* Lines 216-218 and 151-152: for each site of df["meta.site"].dropna()
\* .unique(), in order, the rows of that site (the first one only under
\* --test-run), each with its site.
SiteRows(sites, frame_rows, test_run) ==
    IF sites = <<>> THEN <<>>
    ELSE LET site == Head(sites)
             df_site == SelectSeq(frame_rows, LAMBDA r : r.meta_site = site)
             kept == IF test_run THEN SubSeq(df_site, 1, 1) ELSE df_site
         IN  [i \in 1..Len(kept) |-> [site |-> site, row |-> kept[i]]]
                \o SiteRows(Tail(sites), frame_rows, test_run)

\* The sites of a frame, NaN dropped, in order of first appearance.
SitesOf(frame) ==
    Unique(SelectSeq([i \in 1..Len(frame.rows) |-> frame.rows[i].meta_site],
                     LAMBDA s : s # NaN), {})

\* The options process_site_data passes to download_beehive_files
\* (lines 166-176); skip_if_exists keeps its default, True.
DownloadOptions(s, dry_run) ==
    [extension_filter |-> s.extension, group_by_date |-> FALSE,
     date_regex |-> s.date_regex, skip_if_exists |-> TRUE,
     rename |-> s.rename, dry_run |-> dry_run]

\* The iteration with the date tested only where the path policy uses it.
ProcessRowDateWhenUsed(item, s, dry_run, fs, ds, http) ==
    LET row == item.row
        output_base == build_output_base(root_dir, s.upload_name, s.vsn, item.site,
                                       s.subfolder)
        date == extract_date_from_filename(row.value, s.date_regex, s.date_format)
    IN  IF date.kind = "raise"
        THEN Step(date.exc, "raised", NoneV, fs, ds, FALSE, FALSE)
        ELSE IF date.v.none /\ s.group_by_date /\ ~s.keep_original_path
        THEN Step("continue", "skipped-no-date", NoneV, fs, ds, FALSE, FALSE)
        ELSE LET output_dir == resolve_output_path(row, output_base, date.v.date, s)
                 opts == DownloadOptions(s, dry_run)
                 prep == SelectUrls(Frame(DOMAIN row, <<row>>), opts)
             IN  IF output_dir = NoneV
                 THEN Step("continue", "skipped-path-error", NoneV, fs, ds,
                           FALSE, FALSE)
                 ELSE IF prep.kind = "raise"
                 THEN Step(prep.exc, "raised", NoneV, fs, ds, FALSE, FALSE)
                 ELSE IF prep.v = <<>>
                 THEN Step("continue", "not-eligible", NoneV, fs, ds, FALSE, FALSE)
                 ELSE DownloadUrl(prep.v[1], output_dir, opts, fs, ds, http)

\* One iteration of the loop of process_site_data (lines 154-176) for the
\* row item.row of site item.site, with the outcome http of the GET should
\* one be issued. The kind of the step is "continue", or the exception that
\* leaves process_site_data.
ProcessRow(item, s, dry_run, fs, ds, http) ==
    LET row == item.row
        output_base == build_output_base(root_dir, s.upload_name, s.vsn, item.site,
                                       s.subfolder)
        date == extract_date_from_filename(row.value, s.date_regex, s.date_format)
    IN  IF date.kind = "raise"
        THEN Step(date.exc, "raised", NoneV, fs, ds, FALSE, FALSE)
        ELSE IF date.v.none
        THEN Step("continue", "skipped-no-date", NoneV, fs, ds, FALSE, FALSE)
        ELSE LET output_dir == resolve_output_path(row, output_base, date.v.date, s)
                 opts == DownloadOptions(s, dry_run)
                 prep == SelectUrls(Frame(DOMAIN row, <<row>>), opts)
             IN  IF output_dir = NoneV
                 THEN Step("continue", "skipped-path-error", NoneV, fs, ds,
                           FALSE, FALSE)
                 ELSE IF prep.kind = "raise"
                 THEN Step(prep.exc, "raised", NoneV, fs, ds, FALSE, FALSE)
                 ELSE IF prep.v = <<>>
                 THEN Step("continue", "not-eligible", NoneV, fs, ds, FALSE, FALSE)
                 ELSE DownloadUrl(prep.v[1], output_dir, opts, fs, ds, http)

\* Lines 204-206: a query that raises is logged and the loop continues
\* with the window after window w of the n windows.
OnQueryErrorBreak(w, n) == n + 1
OnQueryError(w, n) == w + 1

\* Lines 195-218: the query of the current day window. It raises, or
\* answers a frame; an empty frame and a frame without the meta columns end
\* the window, any other frame hands its rows to process_site_data.
QueryDay ==
    /\ pc = "days" /\ wi <= Len(windows)
    /\ LET day == windows[wi][1].day
           q(res, df) == [job |-> ji, day |-> day, vsn |-> settings.vsn,
                          upload_name |-> settings.upload_name, result |-> res,
                          df |-> df]
       IN  \/ /\ queried' = Append(queried, q("raised", Frame({}, <<>>)))
              /\ wi' = OnQueryError(wi, Len(windows))
              /\ UNCHANGED <<pc, rows>>
           \/ \E df \in QueryAnswers(day) :
                 /\ queried' = Append(queried, q("answered", df))
                 /\ IF df.rows = <<>>
                       \/ ~({"meta_site", "meta_sensor"} \subseteq df.cols)
                    THEN wi' = wi + 1 /\ UNCHANGED <<pc, rows>>
                    ELSE /\ rows' = SiteRows(SitesOf(df), df.rows, args.test_run)
                         /\ pc' = "rows"
                         /\ wi' = wi
    /\ UNCHANGED <<config, args, ji, settings, windows, files, dirs, outcomes,
                   fetched, exc, probe, dl>>

\* Lines 154-176: the next row of the day.
ProcessRecord ==
    /\ pc = "rows" /\ rows # <<>>
    /\ \E http \in RunnerHttp :
          LET item == Head(rows)
              s == ProcessRow(item, settings, args.dry_run, files, dirs, http)
              o == [run |-> 1, url |-> item.row.value, path |-> s.path,
                    outcome |-> s.outcome, job |-> ji,
                    day |-> windows[wi][1].day, site |-> item.site,
                    orig |-> Get(item.row, "meta_original_path", NoneV)]
          IN  /\ files' = s.files
              /\ dirs' = s.dirs
              /\ outcomes' = Append(outcomes, o)
              /\ fetched' = IF s.fetch
                            THEN Append(fetched, [run |-> 1, url |-> item.row.value,
                                                  path |-> s.path, http |-> http])
                            ELSE fetched
              /\ IF s.kind = "continue"
                 THEN rows' = Tail(rows) /\ UNCHANGED <<pc, exc>>
                 ELSE pc' = "crashed" /\ exc' = s.kind /\ rows' = rows
    /\ UNCHANGED <<config, args, ji, settings, windows, wi, queried, probe, dl>>

\* The rows of the day are exhausted: on to the next day window.
DayDone ==
    /\ pc = "rows" /\ rows = <<>>
    /\ pc' = "days" /\ wi' = wi + 1
    /\ UNCHANGED <<config, args, ji, settings, windows, rows, files, dirs,
                   queried, outcomes, fetched, exc, probe, dl>>

\* The day windows of the job are exhausted: on to the next job.
JobDone ==
    /\ pc = "days" /\ wi > Len(windows)
    /\ pc' = "jobs" /\ ji' = ji + 1
    /\ UNCHANGED <<config, args, settings, windows, wi, rows, files, dirs,
                   queried, outcomes, fetched, exc, probe, dl>>

Next == RunStart \/ JobStart \/ RunEnd \/ QueryDay \/ ProcessRecord \/ DayDone \/ JobDone

Spec == Init /\ [][Next]_vars

-----------------------------------------------------------------------------
(* DateWindowing on its own: date_range_loop applied to a start and an     *)
(* end instant. probe holds the arguments, the days of pd.date_range still *)
(* to visit and the ranges appended so far.                                *)

Instants == {Instant(d, t) : d \in 0..MaxDay, t \in 0..(TicksPerDay - 1)}

InitDates ==
    /\ RunnerIdle
    /\ pc = "dates"
    /\ files = <<>> /\ dirs = {} /\ outcomes = <<>> /\ fetched = <<>>
    /\ exc = "none" /\ dl = NoDl
    /\ \E s \in Instants, e \in Instants :
          probe = [start |-> s, end |-> e, days |-> <<>>, ranges |-> <<>>,
                   phase |-> "call", done |-> FALSE]

\* Lines 43-46: the instants are parsed and the date range is built.
DateRangeCall ==
    /\ pc = "dates" /\ probe.phase = "call"
    /\ probe' = [probe EXCEPT !.days = DateRange(probe.start, probe.end),
                              !.phase = "loop"]
    /\ UNCHANGED <<config, args, pc, ji, settings, windows, wi, rows, files,
                   dirs, queried, outcomes, fetched, exc, dl>>

\* Lines 46-49: one day of the range becomes one (s, e) pair.
DateRangeDay ==
    /\ pc = "dates" /\ probe.phase = "loop" /\ probe.days # <<>>
    /\ probe' = [probe EXCEPT
                    !.ranges = Append(@, <<DayStart(Head(probe.days)),
                                           DayEnd(Head(probe.days))>>),
                    !.days = Tail(@)]
    /\ UNCHANGED <<config, args, pc, ji, settings, windows, wi, rows, files,
                   dirs, queried, outcomes, fetched, exc, dl>>

\* Line 50: the ranges are returned.
DateRangeReturn ==
    /\ pc = "dates" /\ probe.phase = "loop" /\ probe.days = <<>>
    /\ probe' = [probe EXCEPT !.phase = "returned", !.done = TRUE]
    /\ UNCHANGED <<config, args, pc, ji, settings, windows, wi, rows, files,
                   dirs, queried, outcomes, fetched, exc, dl>>

NextDates == DateRangeCall \/ DateRangeDay \/ DateRangeReturn

SpecDates == InitDates /\ [][NextDates]_vars

\* C6: for start <= end, instants with a time of day included,
\* date_range_loop returns (end.date - start.date).days + 1 windows, the
\* i-th being 00:00:00 to 23:59:59 of the i-th calendar day from
\* start's: ascending, no day repeated or missing.
OneWindowPerCalendarDay ==
    (pc = "dates" /\ probe.phase = "returned" /\ InstantLeq(probe.start, probe.end))
        => /\ Len(probe.ranges) = probe.end.day - probe.start.day + 1
           /\ \A i \in 1..Len(probe.ranges) :
                 probe.ranges[i] =
                    <<Instant(probe.start.day + i - 1, 0),
                      Instant(probe.start.day + i - 1, TicksPerDay - 1)>>

-----------------------------------------------------------------------------
(* Properties of the job runner.                                           *)

Last(s) == s[Len(s)]

\* The --job filter lets job j run.
Selected(j) ==
    ~Truthy(args.job) \/ Get(config.jobs[j], "job", NoneV) = args.job

\* Job j has every mandatory key.
WellFormed(j) == MandatoryKeys \subseteq DOMAIN config.jobs[j]

\* The row's original path is missing, or does not start with mount_dir.
OutsideMount(row, mount_dir) ==
    \/ "meta_original_path" \notin DOMAIN row
    \/ row.meta_original_path = NaN
    \/ ~StartsWith(row.meta_original_path, mount_dir)

Backwards(j) ==
    /\ WellFormed(j) /\ "end_date" \in DOMAIN config.jobs[j]
    /\ ~InstantLeq(config.jobs[j].start_date, config.jobs[j].end_date)

\* C7: a job whose end_date precedes its start_date has no day window; it
\* issues no catalog query and handles no record, and the run does not end
\* in an exception at that job.
EndBeforeStartDoesNothing ==
    pc \in {"start", "jobs", "days", "rows", "done", "crashed"} =>
        \A j \in 1..Len(config.jobs) :
            Backwards(j) =>
                /\ \A i \in 1..Len(queried) : queried[i].job # j
                /\ \A i \in 1..Len(outcomes) : outcomes[i].job # j
                /\ (ji = j /\ pc \in {"days", "rows"}) => windows = <<>>
                /\ ~(ji = j /\ pc = "crashed")

\* A job whose end_date precedes its start_date was run and is over.
BackwardsJobRan ==
    /\ pc \in {"jobs", "days", "rows", "done"}
    /\ \E j \in 1..Len(config.jobs) : Backwards(j) /\ Selected(j) /\ ji > j

\* The days job j queried, in order.
QueriedDays(j) ==
    LET qs == SelectSeq(queried, LAMBDA q : q.job = j)
    IN  [i \in 1..Len(qs) |-> qs[i].day]

\* The days of the windows of job j.
WindowDays(j) ==
    LET s == parse_job_settings(config.jobs[j]).v
        ws == date_range_loop(s.start_date, s.end_date)
    IN  [i \in 1..Len(ws) |-> ws[i][1].day]

\* C8: a query that raises does not abort the job or the run: every job
\* that the loop has left behind it has queried every day window of its
\* range, whichever of its queries raised, and a run that returns has left
\* every job behind it.
QueryFailureDoesNotAbort ==
    pc \in {"jobs", "days", "rows", "done", "crashed"} =>
        /\ \A j \in 1..Len(config.jobs) :
              (j < ji /\ Selected(j)) => QueriedDays(j) = WindowDays(j)
        /\ (pc = "done" /\ Truthy(config.password)) => ji = Len(config.jobs) + 1

\* A query raised, the same job then queried its next day, and a later
\* job queried too.
QueriedOnAfterFailure ==
    /\ pc = "done"
    /\ \E i \in 1..(Len(queried) - 1), k \in 1..Len(queried) :
          /\ queried[i].result = "raised"
          /\ queried[i + 1].job = queried[i].job
          /\ queried[i + 1].day = queried[i].day + 1
          /\ queried[k].job > queried[i].job

\* C9: for every filename and every date_regex and date_format a job
\* configures, a job that configures none included,
\* _extract_date_from_filename returns a date or none and does not raise;
\* a record without a date is skipped, no file is written for it and the run
\* goes on.
DateExtractionNeverRaises ==
    /\ (pc = "rows" /\ rows # <<>>)
          => extract_date_from_filename(Head(rows).row.value, settings.date_regex,
                                     settings.date_format).kind = "value"
    /\ pc \in {"rows", "crashed"}
          => \A i \in 1..Len(outcomes) :
                outcomes[i].outcome = "skipped-no-date"
                   => outcomes[i].path = NoneV /\ (i = Len(outcomes) => pc = "rows")

\* C10: a job that lacks a mandatory key (job, upload_name, vsn or
\* start_date) is skipped: the run does not end at it, with or without a
\* --job filter, and the jobs after it are reached.
MissingKeySkipsTheJob ==
    pc \in {"jobs", "days", "rows", "done", "crashed"} =>
        \A j \in 1..Len(config.jobs) :
            ~WellFormed(j) => ~(pc = "crashed" /\ ji = j /\ exc = "KeyError")


-----------------------------------------------------------------------------
(* Properties of download_beehive_files (SpecDl).                          *)

DryRunWritesNothing ==
    /\ [](pc = "download" /\ dl.opts.dry_run /\ dl.run = 1
             => files = dl.before /\ fetched = <<>>)
    /\ [][(pc = "download" /\ dl.opts.dry_run)
            => files' = files /\ fetched' = fetched]_vars

\* A dry run reported a record, created its directory, and returned.
DryRunReported ==
    /\ pc = "download" /\ dl.opts.dry_run /\ dl.phase = "returned"
    /\ dirs # {}
    /\ \E i \in 1..Len(outcomes) : outcomes[i].outcome = "dry-run-would-download"

\* The file tree a call of download_beehive_files starts from.
TreeBefore == IF dl.run = 1 THEN dl.before ELSE dl.first

RECURSIVE LiveFetches(_, _, _, _, _)
\* The destination paths a call with dry_run=false issues a GET for, over
\* the urls, from the tree fs, when the i-th GET issued for a url ends as
\* https[i]: the loop of lines 56-84 folded over the urls.
LiveFetches(urls, destination, opts, fs, https) ==
    IF urls = <<>> THEN {}
    ELSE LET s == DownloadUrl(Head(urls), destination,
                              [opts EXCEPT !.dry_run = FALSE], fs, {}, Head(https))
         IN  IF s.kind # "continue" THEN {}
             ELSE (IF s.fetch THEN {s.path} ELSE {})
                     \cup LiveFetches(Tail(urls), destination, opts, s.files,
                                      Tail(https))

\* The destination paths run r reported as 'dry-run-would-download'.
DryRunPaths(r) ==
    {OutcomesOf(r)[i].path : i \in {k \in 1..Len(OutcomesOf(r)) :
        OutcomesOf(r)[k].outcome = "dry-run-would-download"}}

\* C13: from the same file tree and the same records, the set of
\* destination paths a dry run reports as 'dry-run-would-download' is the
\* set of destination paths a live run issues a GET for, however the GETs
\* of the live run end.
DryRunReportsLiveCandidates ==
    (pc = "download" /\ dl.phase = "returned" /\ dl.opts.dry_run) =>
        \A https \in [1..Len(dl.urls) -> HttpOutcomes] :
            DryRunPaths(dl.run) =
                LiveFetches(dl.urls, dl.destination, dl.opts, TreeBefore, https)

\* A dry run over a tree that holds the file of one record returned: it
\* skipped that record and reported another.
DryRunSkippedAndReported ==
    /\ pc = "download" /\ dl.phase = "returned" /\ dl.opts.dry_run
    /\ \E i \in 1..Len(outcomes), k \in 1..Len(outcomes) :
          /\ outcomes[i].run = 1 /\ outcomes[k].run = 1
          /\ outcomes[i].outcome = "skipped-exists"
          /\ outcomes[k].outcome = "dry-run-would-download"

\* The destination paths of the records of run r that ended as 'downloaded'
\* or 'dry-run-would-download', in processing order.
SavedPathsOf(r) ==
    LET os == SelectSeq(OutcomesOf(r), LAMBDA o :
                  o.outcome \in {"downloaded", "dry-run-would-download"})
    IN  [i \in 1..Len(os) |-> os[i].path]

-----------------------------------------------------------------------------
(* Properties of the job runner, continued.                                *)

\* The record of outcome o reached download_beehive_files.
HandedToDownloader(o) ==
    o.outcome \in {"downloaded", "failed-http", "skipped-exists",
                   "dry-run-would-download", "not-eligible"}

\* C14: with --test-run, for every job and every day window, at most one
\* catalog record is handed to the downloader, however many sites the
\* day's query result contains.
TestRunCapsTheDay ==
    args.test_run =>
        \A j \in 1..Len(config.jobs), d \in 0..MaxDay :
            Cardinality({i \in 1..Len(outcomes) :
                            /\ outcomes[i].job = j /\ outcomes[i].day = d
                            /\ HandedToDownloader(outcomes[i])}) <= 1

\* The directory of the records without a site: root/<upload_name>/<vsn>-UNKNOWN
UnknownSiteBase(j) ==
    build_output_base(root_dir, config.jobs[j].upload_name, config.jobs[j].vsn,
                      <<>>, <<>>)

\* C15: a record whose site metadata is absent is resolved with the
\* placeholder UNKNOWN and handled like any other record: once a run without
\* --test-run has returned, every record without a site of every answer with
\* the meta columns has an outcome, and the path of that outcome is below
\* root/<upload_name>/<vsn>-UNKNOWN.
SiteAbsentBecomesUnknown ==
    (pc = "done" /\ ~args.test_run) =>
        \A i \in 1..Len(queried) :
            (/\ queried[i].result = "answered"
             /\ {"meta_site", "meta_sensor"} \subseteq queried[i].df.cols)
            => \A k \in 1..Len(queried[i].df.rows) :
                  ~Truthy(LET site == queried[i].df.rows[k].meta_site
                          IN  IF site = NaN THEN NoneV ELSE site)
                  => \E n \in 1..Len(outcomes) :
                        /\ outcomes[n].job = queried[i].job
                        /\ outcomes[n].day = queried[i].day
                        /\ outcomes[n].url = queried[i].df.rows[k].value
                        /\ outcomes[n].path # NoneV
                              => StartsWith(outcomes[n].path,
                                            UnknownSiteBase(queried[i].job))

\* C16: a job without an end_date ends yesterday: its day windows are the
\* days from its start to the day before the run, and it issues no query
\* for the day of the run.
DefaultEndIsYesterday ==
    /\ \A i \in 1..Len(queried) :
          "end_date" \notin DOMAIN config.jobs[queried[i].job]
             => queried[i].day < Today
    /\ (pc \in {"days", "rows"} /\ "end_date" \notin DOMAIN config.jobs[ji])
          => /\ Len(windows) = Today - config.jobs[ji].start_date.day
             /\ \A w \in 1..Len(windows) : windows[w][1].day < Today

\* C17: with --job <name> only the job of that name runs: every query and
\* every record handled belongs to a job of that name, and no step taken
\* for another job issues a query, creates a directory, writes a file or
\* issues a GET; the job of that name starts as it does without the filter,
\* with the settings and the day windows of its configuration.
OnlyNamedJobRuns ==
    /\ [](Truthy(args.job) =>
             /\ \A i \in 1..Len(queried) : Selected(queried[i].job)
             /\ \A i \in 1..Len(outcomes) : Selected(outcomes[i].job))
    /\ [][(/\ Truthy(args.job) /\ pc \in {"jobs", "days", "rows"}
           /\ ji <= Len(config.jobs) /\ ~Selected(ji))
          => /\ UNCHANGED <<queried, outcomes, dirs, files, fetched>>
             /\ pc' = "jobs" \/ pc' = "crashed"]_vars
    /\ [][(/\ pc = "jobs" /\ ji <= Len(config.jobs)
           /\ WellFormed(ji) /\ Selected(ji))
          => /\ settings' = parse_job_settings(config.jobs[ji]).v
             /\ windows' = date_range_loop(config.jobs[ji].start_date,
                                           settings'.end_date)
             /\ pc' = "days" /\ wi' = 1 /\ ji' = ji]_vars

\* A run with --job returned: it passed over a job of another name and
\* downloaded a file for the job of that name.
FilteredRunDownloaded ==
    /\ pc = "done" /\ Truthy(args.job)
    /\ \E j \in 1..Len(config.jobs) : ~Selected(j)
    /\ \E i \in 1..Len(outcomes) : outcomes[i].outcome = "downloaded"
    /\ queried # <<>>

\* C18: a job that configures an extension, as a string or as a list,
\* downloads exactly the records whose URL ends with one of its extensions,
\* a job that configures none downloads every record, and configuring an
\* extension never makes a record end the run: no record of a job with an
\* extension, a date_regex and a date_format ends in an exception.
AcceptedExtensions ==
    \A i \in 1..Len(outcomes) :
        LET s == parse_job_settings(config.jobs[outcomes[i].job]).v
            accepted == s.extension # NoExt
            ends == \E k \in 1..Len(s.extension.v) :
                        EndsWith(outcomes[i].url, s.extension.v[k])
        IN  /\ (accepted /\ s.date_regex # NoneV /\ s.date_format # NoneV)
                   => outcomes[i].outcome # "raised"
            /\ (accepted /\ outcomes[i].outcome \in {"downloaded", "dry-run-would-download"})
                   => ends
            /\ (accepted /\ outcomes[i].outcome = "not-eligible") => ~ends
            /\ ~accepted => outcomes[i].outcome # "not-eligible"

-----------------------------------------------------------------------------
(* FilenameDateExtractor on its own: a date is formatted with date_format, *)
(* embedded in a filename, and _extract_date_from_filename is applied to   *)
(* the filename with date_regex and date_format. probe holds the inputs,   *)
(* the filename and the result.                                            *)

RECURSIVE Strftime(_, _)
\* date.strftime(fmt) for a format of %Y, %m, %d and literal characters
Strftime(date, fmt) ==
    IF fmt = <<>> THEN <<>>
    ELSE (IF Head(fmt) = "%Y" THEN StrfY(date)
          ELSE IF Head(fmt) = "%m" THEN StrfM(date)
          ELSE IF Head(fmt) = "%d" THEN StrfD(date)
          ELSE <<Head(fmt)>>) \o Strftime(date, Tail(fmt))

\* \d{4}-\d{2}-\d{2}
RxDashed == <<"\\d", "\\d", "\\d", "\\d", "-", "\\d", "\\d", "-", "\\d", "\\d">>

\* The date_regex and date_format a job configures together; the last pair
\* has a regex whose match is wider than the date.
RegexFormats ==
    { <<Rx8, FormatYmd>>,
      <<RxDashed, <<"%Y", "-", "%m", "-", "%d">>>>,
      <<Rx8, <<"%d", "%m", "%Y">>>>,
      <<Rx8, <<"%m", "%d", "%Y">>>>,
      <<Rx8Group, FormatYmd>> }

ExtractDates ==
    { [y |-> 2024, m |-> 2, d |-> 29], [y |-> 2024, m |-> 7, d |-> 1],
      [y |-> 2024, m |-> 12, d |-> 31], [y |-> 2023, m |-> 10, d |-> 10],
      [y |-> 1999, m |-> 1, d |-> 31], [y |-> 2024, m |-> 11, d |-> 2] }

\* What precedes and follows the date in a filename; the last prefix starts
\* with a run of digits that date_regex matches before the date.
Prefixes == {<<>>, <<"h", "/", "1", "-", "a", "_">>, <<"2", "0", "2", "3", "0", "1", "0", "1", "-", "a", "_">>}
Suffixes == {<<>>, <<"_", "1", ".", "n">>}

InitExtract ==
    /\ RunnerIdle
    /\ pc = "extract"
    /\ files = <<>> /\ dirs = {} /\ outcomes = <<>> /\ fetched = <<>>
    /\ exc = "none" /\ dl = NoDl
    /\ \E date \in ExtractDates, rf \in RegexFormats, pre \in Prefixes,
          suf \in Suffixes :
          probe = [date |-> date, date_regex |-> rf[1], date_format |-> rf[2],
                   prefix |-> pre, suffix |-> suf, text |-> <<>>,
                   filename |-> <<>>, out |-> Ret([none |-> TRUE, date |-> NoDate]),
                   phase |-> "call", done |-> FALSE]

\* The filename is built: the date formatted with date_format, between the
\* prefix and the suffix.
BuildFilename ==
    /\ pc = "extract" /\ probe.phase = "call"
    /\ LET text == Strftime(probe.date, probe.date_format)
       IN  probe' = [probe EXCEPT !.text = text,
                                  !.filename = probe.prefix \o text \o probe.suffix,
                                  !.phase = "built"]
    /\ UNCHANGED <<config, args, pc, ji, settings, windows, wi, rows, files,
                   dirs, queried, outcomes, fetched, exc, dl>>

\* Lines 53-78: _extract_date_from_filename is applied to the filename.
ExtractDate ==
    /\ pc = "extract" /\ probe.phase = "built"
    /\ probe' = [probe EXCEPT
                    !.out = extract_date_from_filename(probe.filename,
                                probe.date_regex, probe.date_format),
                    !.phase = "done", !.done = TRUE]
    /\ UNCHANGED <<config, args, pc, ji, settings, windows, wi, rows, files,
                   dirs, queried, outcomes, fetched, exc, dl>>

NextExtract == BuildFilename \/ ExtractDate

SpecExtract == InitExtract /\ [][NextExtract]_vars

\* The match of date_regex in the filename is the formatted date: the
\* leftmost match starts where the date was embedded and has its length.
MatchIsEmbedded ==
    /\ ReSearch(probe.date_regex, probe.filename) = Len(probe.prefix) + 1
    /\ Len(Atoms(probe.date_regex)) = Len(probe.text)

\* C20: for every date d, when a filename is built by formatting d with
\* date_format and embedding the result where date_regex matches,
\* _extract_date_from_filename applied to the filename with the same
\* date_regex and date_format returns a date, and its calendar date is d.
ExtractionRoundTrip ==
    (pc = "extract" /\ probe.phase = "done" /\ MatchIsEmbedded) =>
        /\ probe.out.kind = "value"
        /\ ~probe.out.v.none
        /\ probe.out.v.date = probe.date

\* A date was recovered from a filename with text before and after it.
DateRecovered ==
    /\ pc = "extract" /\ probe.phase = "done" /\ MatchIsEmbedded
    /\ probe.prefix # <<>> /\ probe.suffix # <<>>
    /\ probe.date = [y |-> 2024, m |-> 2, d |-> 29]
    /\ probe.date_format = <<"%d", "%m", "%Y">>
    /\ probe.out.v.date = probe.date

\* The prefixes of the urls of the catalog that carry a date.
DatedPrefixes == {<<"h", "/", "1", "-", "a", "_">>, <<"h", "/", "2", "-", "a", "_">>, <<"h", "/", "4", "-", "a", "_">>}

\* root/<upload_name>/<device>-<site>/<subfolder>/YYYY/MM/DD, written out.
GroupedDestination(job, site, date) ==
    root_dir \o <<Sep>> \o job.upload_name \o <<Sep>> \o job.vsn \o <<"-">> \o site
        \o (IF Get(job, "subfolder", <<>>) = <<>> THEN <<>>
            ELSE <<Sep>> \o job.subfolder)
        \o <<Sep>> \o NumStr(date.y, 4) \o <<Sep>> \o NumStr(date.m, 2)
        \o <<Sep>> \o NumStr(date.d, 2)

\* Job j groups by date: keep_original_path is false, group_by_date true.
GroupsByDate(j) ==
    /\ WellFormed(j)
    /\ ~Get(config.jobs[j], "keep_original_path", FALSE)
    /\ Get(config.jobs[j], "group_by_date", TRUE)

\* C21: when keep_original_path is false and group_by_date is true, the
\* destination of a record is
\* root/<upload_name>/<device>-<site>/<subfolder>/YYYY/MM/DD/<file name>,
\* where YYYY/MM/DD is the date in the record's file name and not the day of
\* the query window that returned the record.
GroupedByFilenameDate ==
    \A i \in 1..Len(outcomes) :
        (GroupsByDate(outcomes[i].job) /\ outcomes[i].path # NoneV)
        => \E k \in 0..MaxDay, pre \in DatedPrefixes :
              /\ outcomes[i].url = DatedUrl(pre, k)
              /\ outcomes[i].path =
                    GroupedDestination(config.jobs[outcomes[i].job],
                                       outcomes[i].site, DayDate(k))
                       \o <<Sep>> \o Basename(outcomes[i].url)

\* A record of the day before its query window was downloaded below a
\* subfolder.
DownloadedAcrossMidnight ==
    \E i \in 1..Len(outcomes) :
        /\ GroupsByDate(outcomes[i].job)
        /\ Get(config.jobs[outcomes[i].job], "subfolder", <<>>) # <<>>
        /\ outcomes[i].outcome = "downloaded"
        /\ outcomes[i].url = DatedUrl(<<"h", "/", "2", "-", "a", "_">>, outcomes[i].day - 1)
        /\ outcomes[i].path \in DOMAIN files

\* The state of job j in the run: PENDING until the loop takes it, RUNNING
\* while it iterates over its day windows, then SKIPPED when the name filter
\* passed it over, PARTIAL when one of its queries raised, COMPLETED otherwise.
\* A job at which an exception left the run stays as it was.
JobState(j) ==
    IF pc = "start" \/ ji < j \/ (ji = j /\ pc = "jobs") THEN "PENDING"
    ELSE IF ji = j /\ pc \in {"days", "rows"} THEN "RUNNING"
    ELSE IF ji = j /\ pc = "crashed"
         THEN (IF exc = "KeyError" THEN "PENDING" ELSE "RUNNING")
    ELSE IF ~Selected(j) THEN "SKIPPED"
    ELSE IF \E i \in 1..Len(queried) :
                queried[i].job = j /\ queried[i].result = "raised"
         THEN "PARTIAL"
    ELSE "COMPLETED"

\* C22: jobs are taken in configuration order, and when a run with
\* credentials ends every configured job is in exactly one terminal state,
\* COMPLETED, PARTIAL or SKIPPED: none is left PENDING or RUNNING.
JobsReachATerminalState ==
    /\ \A i \in 1..(Len(queried) - 1) : queried[i].job <= queried[i + 1].job
    /\ (/\ pc \in {"done", "crashed"}
        /\ Truthy(config.username) /\ Truthy(config.password))
       => \A j \in 1..Len(config.jobs) :
             JobState(j) \in {"COMPLETED", "PARTIAL", "SKIPPED"}

\* C27: in process_site_data a record is handed to the downloader only if
\* a date was extracted from its 'value' field, under every path policy: the
\* step that handles a record without a date creates no directory, writes no
\* file, issues no GET and records it as skipped for its date, also when
\* keep_original_path is true or group_by_date is false.
NoDateNoDownload ==
    [][(/\ pc = "rows" /\ rows # <<>>
        /\ LET e == extract_date_from_filename(Head(rows).row.value,
                        settings.date_regex, settings.date_format)
           IN  e.kind = "value" /\ e.v.none)
       => /\ Last(outcomes').outcome = "skipped-no-date"
          /\ ~HandedToDownloader(Last(outcomes'))
          /\ files' = files /\ dirs' = dirs /\ fetched' = fetched
          /\ pc' = "rows" /\ rows' = Tail(rows)]_vars

\* A record without a date was skipped under the mirror policy, although
\* its original path was inside the mount directory.
UndatedSkippedWhenMirroring ==
    \E i \in 1..Len(outcomes) :
        /\ outcomes[i].outcome = "skipped-no-date"
        /\ Get(config.jobs[outcomes[i].job], "keep_original_path", FALSE)
        /\ StartsWith(outcomes[i].orig, config.jobs[outcomes[i].job].mount_dir)

\* A record without a date was skipped by a job that does not group by
\* date.
UndatedSkippedWhenFlat ==
    \E i \in 1..Len(outcomes) :
        /\ outcomes[i].outcome = "skipped-no-date"
        /\ ~Get(config.jobs[outcomes[i].job], "keep_original_path", FALSE)
        /\ ~Get(config.jobs[outcomes[i].job], "group_by_date", TRUE)


\* C24 as stated: download_beehive_files called with group_by_date=true and
\* a date_regex that is None or empty raises ValueError before any file is
\* fetched.
GroupingWithoutRegexIsValueError ==
    (/\ pc = "download" /\ dl.phase \in {"raised", "returned"}
     /\ dl.opts.group_by_date /\ dl.opts.date_regex \in {NoneV, <<>>}
     /\ dl.frame.rows # <<>> /\ "value" \in dl.frame.cols
     /\ dl.opts.extension_filter.type # "list")
    => /\ dl.phase = "raised" /\ exc = "ValueError"
       /\ fetched = <<>>

\* C25 as stated: a fetch that ended in failure (a status other than 200, a
\* transport exception, an exception while the body was written) leaves no
\* file at its destination path, unless the file was there before the first
\* run or a fetch of that path succeeded.
FailedFetchLeavesNoFile ==
    pc = "download" =>
        \A i \in 1..Len(fetched) :
            (/\ fetched[i].http # "ok"
             /\ fetched[i].path \notin DOMAIN dl.before
             /\ \A j \in 1..Len(fetched) :
                   fetched[j].path = fetched[i].path => fetched[j].http # "ok")
            => fetched[i].path \notin DOMAIN files

\* C26 as stated: in a first run into an empty tree two distinct urls never
\* have the same destination path, and no record is skipped because its
\* file exists.
DistinctUrlsDistinctPaths ==
    (pc = "download" /\ dl.run = 1 /\ dl.before = <<>> /\ ~dl.opts.dry_run)
    => /\ \A i, j \in 1..Len(outcomes) :
             (/\ outcomes[i].url # outcomes[j].url
              /\ outcomes[i].path # NoneV)
             => outcomes[i].path # outcomes[j].path
       /\ \A i \in 1..Len(outcomes) :
             outcomes[i].outcome \in {"downloaded", "failed-http",
                                      "skipped-no-date", "raised"}

-----------------------------------------------------------------------------
(* The per-record step of download_beehive_files run by several workers.   *)
(* The step is the code's: the target path and its folder (lines 57-72),   *)
(* the existence test (line 74), then the dry-run report or the fetch and  *)
(* the write (lines 78-84). The workers and the lock per destination path  *)
(* are the execution the specification describes. dl holds the options,    *)
(* the urls, the index of the next url to hand out, each worker's position *)
(* and the destination paths that are locked.                              *)

MaxWorkers == 2
Workers == 1..MaxWorkers

Url4 == <<"h", "/", "4", "-", "b", "_", "2", "0", "2", "4", "0", "7", "0", "1", ".", "n">>

ParUrls == {<<Url1, Url2>>, <<Url1, Url3, Url2>>, <<Url1, Url4>>}
ParGrouping == {<<FALSE, NoneV>>, <<TRUE, Rx8Group>>}

IdleWorker == [st |-> "idle", url |-> NoneV, path |-> NoneV]

InitPar ==
    /\ RunnerIdle
    /\ pc = "parallel"
    /\ files \in DlTrees
    /\ dirs = {} /\ outcomes = <<>> /\ fetched = <<>>
    /\ exc = "none" /\ probe = NoProbe
    /\ \E us \in ParUrls, g \in ParGrouping, locked \in BOOLEAN,
          skip \in BOOLEAN, ren \in BOOLEAN, dry \in BOOLEAN :
          dl = [phase |-> "parallel", destination |-> DlDestination,
                opts |-> [extension_filter |-> NoExt, group_by_date |-> g[1],
                          date_regex |-> g[2], skip_if_exists |-> skip,
                          rename |-> ren, dry_run |-> dry],
                urls |-> us, next |-> 1, locked |-> locked, held |-> {},
                w |-> [k \in Workers |-> IdleWorker], before |-> files]

\* Lines 57-72: the folder and the path of the file a url is saved to;
\* no path when the name has no date and the run groups by date.
Target(url, destination, opts) ==
    LET original_filename == Basename(url)
        filename == IF opts.rename THEN StripTimestamp(original_filename)
                    ELSE original_filename
        ex == IF opts.group_by_date THEN extract(opts.date_regex, filename)
              ELSE Ret(NoneV)
    IN  IF ex.kind = "raise" THEN [kind |-> "raise", exc |-> ex.exc]
        ELSE IF opts.group_by_date /\ ~Truthy(ex.v) THEN [kind |-> "no-date"]
        ELSE LET target_folder == IF opts.group_by_date
                                  THEN fetcher_create_dated_folder(destination, ex.v)
                                  ELSE destination
             IN  [kind |-> "path", folder |-> target_folder,
                  path |-> Join2(target_folder, filename)]

\* The lock of a destination path can be taken: always when the run does
\* not serialize, else when no worker holds it.
CanLock(path) == dl.locked => path \notin dl.held

ParOutcome(w, url, path, outcome) ==
    [run |-> 1, worker |-> w, url |-> url, path |-> path, outcome |-> outcome]

\* Worker w takes the next url and runs lines 57-76: the path, makedirs,
\* and the existence test, under the lock of the path when the run
\* serializes. It keeps the lock when it goes on to fetch.
ParCheck(w) ==
    /\ pc = "parallel" /\ dl.w[w].st = "idle" /\ dl.next <= Len(dl.urls)
    /\ LET url == dl.urls[dl.next]
           t == Target(url, dl.destination, dl.opts)
       IN  IF t.kind # "path"
           THEN /\ outcomes' = Append(outcomes,
                       ParOutcome(w, url, NoneV,
                           IF t.kind = "raise" THEN "raised" ELSE "skipped-no-date"))
                /\ dl' = [dl EXCEPT !.next = @ + 1]
                /\ dirs' = dirs
           ELSE /\ CanLock(t.path)
                /\ dirs' = dirs \cup {t.folder}
                /\ IF ShouldSkip(dl.opts.skip_if_exists, t.path, files)
                   THEN /\ outcomes' = Append(outcomes,
                               ParOutcome(w, url, t.path, "skipped-exists"))
                        /\ dl' = [dl EXCEPT !.next = @ + 1]
                   ELSE /\ outcomes' = outcomes
                        /\ dl' = [dl EXCEPT
                                    !.next = @ + 1,
                                    !.held = IF dl.locked THEN @ \cup {t.path} ELSE @,
                                    !.w[w] = [st |-> "checked", url |-> url,
                                              path |-> t.path]]
    /\ RunnerUnchanged
    /\ UNCHANGED <<pc, files, fetched, exc, probe>>

\* Worker w runs lines 78-84 for the url it has checked: the report of a
\* dry run, or the GET and the write; then it gives the lock back.
ParFetch(w) ==
    /\ pc = "parallel" /\ dl.w[w].st = "checked"
    /\ LET url == dl.w[w].url
           path == dl.w[w].path
           release == [dl EXCEPT !.held = @ \ {path}, !.w[w] = IdleWorker]
       IN  IF dl.opts.dry_run
           THEN /\ outcomes' = Append(outcomes,
                       ParOutcome(w, url, path, "dry-run-would-download"))
                /\ dl' = release
                /\ UNCHANGED <<files, fetched>>
           ELSE \E http \in HttpOutcomes :
                   LET r == fetch_and_save_file(url, path, files, http)
                   IN  /\ files' = r.files
                       /\ fetched' = Append(fetched,
                              [run |-> 1, worker |-> w, url |-> url,
                               path |-> path, http |-> http,
                               existed |-> path \in DOMAIN files])
                       /\ outcomes' = Append(outcomes,
                              ParOutcome(w, url, path,
                                  IF r.saved THEN "downloaded" ELSE "failed-http"))
                       /\ dl' = release
    /\ RunnerUnchanged
    /\ UNCHANGED <<pc, dirs, exc, probe>>

NextPar == \E w \in Workers : ParCheck(w) \/ ParFetch(w)

SpecPar == InitPar /\ [][NextPar]_vars

\* A fetch that wrote at its destination path, whole or in part.
Wrote(f) == f.http \in {"ok", "partial"}

\* C23: with the check and the write of one destination path serialized
\* by a lock per path, and skip_if_exists=true, no GET is issued for a path
\* where a file exists, each destination path is written by at most one
\* fetch of the run, and the files that existed before the run keep their
\* content.
SerializedCheckThenWrite ==
    (pc = "parallel" /\ dl.locked /\ dl.opts.skip_if_exists)
    => /\ \A i \in 1..Len(fetched) : ~fetched[i].existed
       /\ \A i, j \in 1..Len(fetched) :
             (i # j /\ fetched[i].path = fetched[j].path)
             => ~(Wrote(fetched[i]) /\ Wrote(fetched[j]))
       /\ \A p \in DOMAIN dl.before :
             p \in DOMAIN files /\ files[p] = dl.before[p]

\* Under the lock two workers took two urls of one destination path: one
\* fetched and wrote the file, the other found it and skipped.
OneWorkerWroteTheOtherSkipped ==
    /\ pc = "parallel" /\ dl.locked /\ dl.opts.skip_if_exists
    /\ \E i \in 1..Len(fetched), k \in 1..Len(outcomes) :
          /\ Wrote(fetched[i])
          /\ outcomes[k].outcome = "skipped-exists"
          /\ outcomes[k].path = fetched[i].path
          /\ outcomes[k].worker # fetched[i].worker
          /\ outcomes[k].url # fetched[i].url

\* Without the lock two workers are both between the check and the write
\* of one destination path where no file exists yet.
BothDecidedToFetch ==
    /\ pc = "parallel" /\ ~dl.locked /\ dl.opts.skip_if_exists
    /\ \E a, b \in Workers :
          /\ a # b /\ dl.w[a].st = "checked" /\ dl.w[b].st = "checked"
          /\ dl.w[a].path = dl.w[b].path
          /\ dl.w[a].path \notin DOMAIN files


-----------------------------------------------------------------------------
(* ceil_time_corrector.py: main run MaxCeilRuns times over one job. The    *)
(* file tree maps a path to what the file holds: a raw upload, a complete  *)
(* or a truncated copy of one, or a copy whose time axis was adjusted. dl  *)
(* holds the job's subfolder, --latency, --dry-run of the run, the files   *)
(* of the glob still to process, processed_log in memory and the lines of  *)
(* the log file on disk.                                                   *)

MaxCeilRuns == 2

\* (\d{19})- and \d{8}_\d{6}
Rx19Dash == <<"(">> \o [i \in 1..19 |-> "\\d"] \o <<")", "-">>
RxStamp == [i \in 1..8 |-> "\\d"] \o <<"_">> \o [i \in 1..6 |-> "\\d"]

\* sub in s
Contains(s, sub) ==
    \E i \in 1..(Len(s) - Len(sub) + 1) : SubSeq(s, i, i + Len(sub) - 1) = sub

RECURSIVE ReSub(_, _, _)
\* re.sub(rx, repl, s): every non-overlapping match replaced, leftmost first
ReSub(rx, repl, s) ==
    LET i == ReSearch(rx, s)
    IN  IF i = 0 THEN s
        ELSE SubSeq(s, 1, i - 1) \o repl
             \o ReSub(rx, repl, SubSeq(s, i + Len(Atoms(rx)), Len(s)))

RECURSIVE CivilYear(_, _)
\* The year of the day `days` days after 1 January of year y, and the day
\* of that year counted from 0.
CivilYear(days, y) ==
    LET n == IF IsLeap(y) THEN 366 ELSE 365
    IN  IF days >= n THEN CivilYear(days - n, y + 1) ELSE [y |-> y, doy |-> days]

RECURSIVE CivilMonth(_, _, _)
CivilMonth(y, m, doy) ==
    IF doy >= DaysInMonth(y, m) THEN CivilMonth(y, m + 1, doy - DaysInMonth(y, m))
    ELSE [m |-> m, d |-> doy + 1]

\* datetime.utcfromtimestamp of whole seconds since the epoch
utcfromtimestamp(secs) ==
    LET cy == CivilYear(secs \div 86400, 1970)
        cm == CivilMonth(cy.y, 1, cy.doy)
        tod == secs % 86400
    IN  [y |-> cy.y, m |-> cm.m, d |-> cm.d,
         H |-> tod \div 3600, M |-> (tod % 3600) \div 60, S |-> tod % 60]

\* extract_timestamp_from_filename, as seconds since the epoch: the name
\* must start with 19 digits and a dash; the nanoseconds divided by 1e9 are
\* rounded to the microsecond, which carries into the second from
\* .9999995 on (the double quotient moves that point by less than a
\* microsecond). none without a match.
extract_timestamp_from_filename(filename) ==
    IF ~MatchAt(Atoms(Rx19Dash), filename, 1) THEN [none |-> TRUE, secs |-> 0]
    ELSE [none |-> FALSE,
          secs |-> NumVal(SubSeq(filename, 1, 10))
                   + (IF NumVal(SubSeq(filename, 11, 19)) >= 999999500
                      THEN 1 ELSE 0)]

\* Lines 63-67: new_file_path of a file whose name carries a timestamp.
CorrectedPath(filename, base_output_dir, latency) ==
    LET mod_time == utcfromtimestamp(extract_timestamp_from_filename(filename).secs - latency)
        new_datetime_str == StrfY(mod_time) \o StrfM(mod_time) \o StrfD(mod_time)
                            \o <<"_">> \o NumStr(mod_time.H, 2)
                            \o NumStr(mod_time.M, 2) \o NumStr(mod_time.S, 2)
        new_filename == ReSub(RxStamp, new_datetime_str, filename)
        out_dir == Join2(base_output_dir,
                         StrfY(mod_time) \o <<"/">> \o StrfM(mod_time)
                         \o <<"/">> \o StrfD(mod_time))
    IN  [out_dir |-> out_dir, path |-> Join2(out_dir, new_filename)]

\* What the try block of process_file can do: copy, open and adjust; the
\* copy raises before or after it has written part of the destination;
\* Dataset() raises on the copy; adjust_time_variable catches an exception
\* of its own and returns with the time axis as it was.
CeilOutcomes == {"ok", "copy-fails", "copy-partial", "open-fails", "adjust-fails"}

NcFile(kind, of) == [kind |-> kind, of |-> of]

CeilResult(fs, ds, log, event) ==
    [files |-> fs, dirs |-> ds, processed_log |-> log, event |-> event]

\* process_file: the tree, the directories and processed_log it leaves,
\* when its try block does o.
process_file(file_path, base_output_dir, latency, processed_log, dry_run, fs, ds, o) ==
    LET filename == Basename(file_path)
    IN  IF filename \in processed_log
        THEN CeilResult(fs, ds, processed_log, "in-log")
        ELSE IF ~Contains(filename, <<"_", "1", "9", "7", "0">>)
        THEN CeilResult(fs, ds, processed_log, "not-1970")
        ELSE IF extract_timestamp_from_filename(filename).none
        THEN CeilResult(fs, ds, processed_log, "no-timestamp")
        ELSE LET c == CorrectedPath(filename, base_output_dir, latency)
                 logged == processed_log \cup {filename}
                 put(kind) == [p \in DOMAIN fs \cup {c.path} |->
                                  IF p = c.path THEN NcFile(kind, filename) ELSE fs[p]]
                 made == ds \cup {c.out_dir}
             IN  IF c.path \in DOMAIN fs
                 THEN CeilResult(fs, ds, logged, "exists")
                 ELSE IF dry_run
                 THEN CeilResult(fs, ds, logged, "dry-run")
                 ELSE IF o = "ok"
                 THEN CeilResult(put("adjusted"), made, logged, "corrected")
                 ELSE IF o = "adjust-fails"
                 THEN CeilResult(put("copy"), made, logged, "corrected")
                 ELSE IF o = "open-fails"
                 THEN CeilResult(put("copy"), made, processed_log, "failed")
                 ELSE IF o = "copy-partial"
                 THEN CeilResult(put("partial"), made, processed_log, "failed")
                 ELSE CeilResult(fs, made, processed_log, "failed")

\* glob(root_dir/**/*.nc, recursive=True)
recursive_nc_files(fs, root) ==
    {p \in DOMAIN fs : StartsWith(p, root \o <<Sep>>) /\ EndsWith(p, <<".", "n", "c">>)}

\* Lines 137-140 of main: the lines of the log file after the run.
SavedLogAlways(dry_run, logfile, processed_log) == processed_log
SavedLog(dry_run, logfile, processed_log) ==
    IF ~dry_run THEN processed_log ELSE logfile

CeilSubfolder == <<"/", "c">>

\* Uploads: two with a 1970 stamp; one whose nanoseconds round up to the
\* next second; one with the prefix of the first and another 1970 stamp;
\* one with _1970 and no stamp to replace; one without the prefix; one
\* without _1970.
Raw1 == <<"1", "7", "2", "0", "0", "0", "0", "0", "0", "0", "0", "0", "0", "0", "0", "0", "0", "0", "0", "-", "c", "_", "1", "9", "7", "0", "0", "1", "0", "1", "_", "0", "0", "0", "0", "1", "2", ".", "n", "c">>
Raw2 == <<"1", "7", "2", "0", "0", "0", "0", "0", "0", "1", "9", "9", "9", "9", "9", "9", "9", "0", "0", "-", "c", "_", "1", "9", "7", "0", "0", "1", "0", "1", "_", "0", "0", "0", "0", "1", "3", ".", "n", "c">>
Raw3 == <<"1", "7", "2", "0", "0", "0", "0", "0", "0", "0", "0", "0", "0", "0", "0", "0", "0", "0", "0", "-", "c", "_", "1", "9", "7", "0", "0", "1", "0", "1", "_", "0", "0", "0", "0", "1", "3", ".", "n", "c">>
Raw4 == <<"1", "7", "2", "0", "0", "0", "0", "0", "0", "0", "0", "0", "0", "0", "0", "0", "0", "0", "0", "-", "c", "_", "1", "9", "7", "0", ".", "n", "c">>
Raw5 == <<"c", "_", "1", "9", "7", "0", "0", "1", "0", "1", "_", "0", "0", "0", "0", "1", "2", ".", "n", "c">>
Raw6 == <<"1", "7", "2", "0", "0", "0", "0", "0", "0", "0", "0", "0", "0", "0", "0", "0", "0", "0", "0", "-", "c", "_", "2", "0", "2", "4", "0", "1", "0", "1", "_", "0", "0", "0", "0", "0", "0", ".", "n", "c">>
\* The uploads in the subfolder before the first run.
RawSets == {{Raw1}, {Raw1, Raw3}, {Raw2, Raw4}, {Raw5, Raw6}}

CeilTrees ==
    { [p \in {Join2(CeilSubfolder, n) : n \in ns} |-> NcFile("raw", Basename(p))] :
        ns \in RawSets }

Latencies == {0, 3600}

InitCeil ==
    /\ RunnerIdle
    /\ pc = "ceil"
    /\ files \in CeilTrees
    /\ dirs = {} /\ outcomes = <<>> /\ fetched = <<>>
    /\ exc = "none" /\ probe = NoProbe
    /\ \E latency \in Latencies :
          dl = [phase |-> "idle", subfolder |-> CeilSubfolder,
                latency |-> latency, dry_run |-> FALSE, run |-> 0,
                todo |-> {}, processed_log |-> {}, logfile |-> {},
                ever_dry |-> FALSE]

\* Lines 115-132 of main: the glob and the load of the log file.
CeilStart ==
    /\ pc = "ceil" /\ dl.phase = "idle" /\ dl.run < MaxCeilRuns
    /\ \E dry \in BOOLEAN :
          dl' = [dl EXCEPT !.phase = "loop", !.run = @ + 1, !.dry_run = dry,
                           !.todo = recursive_nc_files(files, dl.subfolder),
                           !.processed_log = dl.logfile,
                           !.ever_dry = @ \/ dry]
    /\ RunnerUnchanged
    /\ UNCHANGED <<pc, files, dirs, outcomes, fetched, exc, probe>>

\* Lines 134-135: process_file for the next file of the glob, whose order
\* is the file system's.
CeilFile ==
    /\ pc = "ceil" /\ dl.phase = "loop" /\ dl.todo # {}
    /\ \E file_path \in dl.todo, o \in CeilOutcomes :
          LET r == process_file(file_path, dl.subfolder, dl.latency,
                                dl.processed_log, dl.dry_run, files, dirs, o)
          IN  /\ files' = r.files
              /\ dirs' = r.dirs
              /\ outcomes' = Append(outcomes,
                    [run |-> dl.run, file |-> Basename(file_path),
                     path |-> file_path, event |-> r.event])
              /\ dl' = [dl EXCEPT !.todo = @ \ {file_path},
                                  !.processed_log = r.processed_log]
    /\ RunnerUnchanged
    /\ UNCHANGED <<pc, fetched, exc, probe>>

\* Lines 137-140: the log file is written unless the run is a dry run.
CeilEnd ==
    /\ pc = "ceil" /\ dl.phase = "loop" /\ dl.todo = {}
    /\ dl' = [dl EXCEPT !.phase = "idle",
                        !.logfile = SavedLog(dl.dry_run, @, dl.processed_log)]
    /\ RunnerUnchanged
    /\ UNCHANGED <<pc, files, dirs, outcomes, fetched, exc, probe>>

NextCeil == CeilStart \/ CeilFile \/ CeilEnd

SpecCeil == InitCeil /\ [][NextCeil]_vars

\* C28 as stated: after non-dry runs every filename in the log file has a
\* file at its corrected path whose time axis was adjusted.
LoggedMeansAdjusted ==
    (pc = "ceil" /\ ~dl.ever_dry)
    => \A fn \in dl.logfile :
          LET c == CorrectedPath(fn, dl.subfolder, dl.latency)
          IN  c.path \in DOMAIN files /\ files[c.path].kind = "adjusted"

\* C29: a step of a dry run changes no file, creates no directory and
\* leaves the log file as it is; and a run starts from the log file and the
\* files on disk, whatever the run before it held in memory.
DryRunLeavesDiskAlone ==
    [][/\ (pc = "ceil" /\ dl.phase = "loop" /\ dl.dry_run)
          => (files' = files /\ dirs' = dirs /\ dl'.logfile = dl.logfile)
       /\ (pc = "ceil" /\ dl.phase = "idle" /\ dl'.phase = "loop")
          => /\ dl'.processed_log = dl.logfile
             /\ dl'.todo = recursive_nc_files(files, dl.subfolder)
             /\ files' = files]_vars

\* A dry run reported a file it would correct, and the run after it, not a
\* dry run, corrected that file.
DryRunThenCorrected ==
    /\ pc = "ceil" /\ dl.run = 2 /\ ~dl.dry_run
    /\ \E i, j \in 1..Len(outcomes) :
          /\ outcomes[i].run = 1 /\ outcomes[i].event = "dry-run"
          /\ outcomes[j].run = 2 /\ outcomes[j].event = "corrected"
          /\ outcomes[j].file = outcomes[i].file
          /\ files[CorrectedPath(outcomes[j].file, dl.subfolder, dl.latency).path].kind
                = "adjusted"

-----------------------------------------------------------------------------
(* run-ingest.py: the script run MaxIngestRuns times. dl holds the step    *)
(* the script is at, the files on the node, in RAW_DIR, in INJECT_DIR, in  *)
(* the two archive directories and on the Crocus server, whether the       *)
(* docker image is present, the lines of error_log.txt, the exit status,   *)
(* and the commands run so far with their return codes.                    *)

MaxIngestRuns == 2

\* The names of the files the node can hold, and of the daily file the
\* container makes of the raw files.
NodeNames == {<<"a">>, <<"b">>}
DailyName == <<"d">>

\* A return code of 0 and one that is not.
ReturnCodes == {0, 1}

\* check_status: whether the script logs the error and exits.
check_status_never(returncode) == FALSE
check_status(returncode) == returncode # 0

\* The script after an external command has returned rc: exit(1) after
\* log_error(msg), or on to the step next.
AfterCommand(d, step, rc, msg, next) ==
    IF check_status(rc)
    THEN [d EXCEPT !.phase = "exited", !.exit = "1",
                   !.log = Append(@, msg),
                   !.trace = Append(@, [step |-> step, rc |-> rc])]
    ELSE [d EXCEPT !.phase = next,
                   !.trace = Append(@, [step |-> step, rc |-> rc])]

InitIngest ==
    /\ RunnerIdle
    /\ pc = "ingest"
    /\ files = <<>> /\ dirs = {} /\ outcomes = <<>> /\ fetched = <<>>
    /\ exc = "none" /\ probe = NoProbe
    /\ \E node \in SUBSET NodeNames, image \in BOOLEAN :
          dl = [phase |-> "makedirs", run |-> 1, node |-> node, image |-> image,
                raw |-> {}, inject |-> {}, inject_dir |-> FALSE,
                raw_archived |-> {}, ingested_archived |-> {}, server |-> {},
                raw_archived0 |-> {}, ingested_archived0 |-> {},
                log |-> <<>>, exit |-> "none", trace |-> <<>>]

\* Lines 36-37: the directories.
IngestMakedirs ==
    /\ pc = "ingest" /\ dl.phase = "makedirs"
    /\ dl' = [dl EXCEPT !.phase = "sync", !.inject_dir = TRUE]
    /\ UNCHANGED <<config, args, pc, ji, settings, windows, wi, rows, files,
                   dirs, queried, outcomes, fetched, exc, probe>>

\* Lines 40-42: rsync from the node; a failed rsync may have copied part.
RsyncFromNode ==
    /\ pc = "ingest" /\ dl.phase = "sync"
    /\ \E rc \in ReturnCodes, got \in SUBSET dl.node :
          /\ rc = 0 => got = dl.node
          /\ dl' = AfterCommand([dl EXCEPT !.raw = @ \cup got], "rsync-from-node",
                                rc, "Rsync from Waggle node failed", "image-check")
    /\ UNCHANGED <<config, args, pc, ji, settings, windows, wi, rows, files,
                   dirs, queried, outcomes, fetched, exc, probe>>

\* Lines 45-47: docker images | grep -q; a return code other than 0 sends
\* the script to the pull, not to the exit.
ImageCheck ==
    /\ pc = "ingest" /\ dl.phase = "image-check"
    /\ LET rc == IF dl.image THEN 0 ELSE 1
       IN  dl' = [dl EXCEPT !.phase = IF rc # 0 THEN "pull" ELSE "run",
                            !.trace = Append(@, [step |-> "image-check", rc |-> rc])]
    /\ UNCHANGED <<config, args, pc, ji, settings, windows, wi, rows, files,
                   dirs, queried, outcomes, fetched, exc, probe>>

\* Lines 48-50: docker pull.
DockerPull ==
    /\ pc = "ingest" /\ dl.phase = "pull"
    /\ \E rc \in ReturnCodes :
          dl' = AfterCommand([dl EXCEPT !.image = (rc = 0)], "docker-pull", rc,
                             "Docker pull failed", "run")
    /\ UNCHANGED <<config, args, pc, ji, settings, windows, wi, rows, files,
                   dirs, queried, outcomes, fetched, exc, probe>>

\* Lines 53-62: docker run; the container leaves the daily file in
\* INJECT_DIR, or nothing.
DockerRun ==
    /\ pc = "ingest" /\ dl.phase = "run"
    /\ \E rc \in ReturnCodes, made \in SUBSET {DailyName} :
          /\ dl.raw = {} => made = {}
          /\ dl' = AfterCommand([dl EXCEPT !.inject = @ \cup made], "docker-run",
                                rc, "Docker run failed", "push")
    /\ UNCHANGED <<config, args, pc, ji, settings, windows, wi, rows, files,
                   dirs, queried, outcomes, fetched, exc, probe>>

\* Lines 65-67: rsync to the Crocus server; a failed rsync may have
\* copied part.
RsyncToCrocus ==
    /\ pc = "ingest" /\ dl.phase = "push"
    /\ \E rc \in ReturnCodes, sent \in SUBSET dl.inject :
          /\ rc = 0 => sent = dl.inject
          /\ dl' = AfterCommand([dl EXCEPT !.server = @ \cup sent],
                                "rsync-to-crocus", rc,
                                "Rsync to Crocus server failed", "archive")
    /\ UNCHANGED <<config, args, pc, ji, settings, windows, wi, rows, files,
                   dirs, queried, outcomes, fetched, exc, probe>>

\* Lines 70-73: shutil.move of every file of RAW_DIR and then of INJECT_DIR
\* into its archive directory, in the order of os.listdir; shutil.move
\* raises when the archive holds a file of that name, and the files before
\* it in the listing have been moved by then.
Archive ==
    /\ pc = "ingest" /\ dl.phase = "archive"
    /\ LET rawhit == dl.raw \cap dl.raw_archived
           injhit == dl.inject \cap dl.ingested_archived
           step == [step |-> "archive", rc |-> 0]
       IN  IF rawhit # {}
           THEN \E moved \in SUBSET (dl.raw \ rawhit) :
                   dl' = [dl EXCEPT !.raw = @ \ moved,
                                    !.raw_archived = @ \cup moved,
                                    !.phase = "crashed", !.exit = "1",
                                    !.trace = Append(@, step)]
           ELSE IF injhit # {}
           THEN \E moved \in SUBSET (dl.inject \ injhit) :
                   dl' = [dl EXCEPT !.raw = {},
                                    !.raw_archived = @ \cup dl.raw,
                                    !.inject = @ \ moved,
                                    !.ingested_archived = @ \cup moved,
                                    !.phase = "crashed", !.exit = "1",
                                    !.trace = Append(@, step)]
           ELSE dl' = [dl EXCEPT !.raw = {}, !.raw_archived = @ \cup dl.raw,
                                 !.inject = {},
                                 !.ingested_archived = @ \cup dl.inject,
                                 !.phase = "cleanup",
                                 !.trace = Append(@, step)]
    /\ exc' = IF dl'.phase = "crashed" THEN "shutil.Error" ELSE exc
    /\ UNCHANGED <<config, args, pc, ji, settings, windows, wi, rows, files,
                   dirs, queried, outcomes, fetched, probe>>

\* Line 76: shutil.rmtree(INJECT_DIR), and the end of the script.
Cleanup ==
    /\ pc = "ingest" /\ dl.phase = "cleanup"
    /\ dl' = [dl EXCEPT !.phase = "done", !.exit = "0", !.inject = {},
                        !.inject_dir = FALSE,
                        !.trace = Append(@, [step |-> "rmtree", rc |-> 0])]
    /\ UNCHANGED <<config, args, pc, ji, settings, windows, wi, rows, files,
                   dirs, queried, outcomes, fetched, exc, probe>>

\* cron starts the script again; the node holds any of its files by then.
IngestAgain ==
    /\ pc = "ingest" /\ dl.phase \in {"done", "exited", "crashed"}
    /\ dl.run < MaxIngestRuns
    /\ \E node \in SUBSET NodeNames :
          dl' = [dl EXCEPT !.phase = "makedirs", !.run = @ + 1, !.node = node,
                           !.exit = "none", !.trace = <<>>,
                           !.raw_archived0 = dl.raw_archived,
                           !.ingested_archived0 = dl.ingested_archived]
    /\ exc' = "none"
    /\ UNCHANGED <<config, args, pc, ji, settings, windows, wi, rows, files,
                   dirs, queried, outcomes, fetched, probe>>

NextIngest ==
    \/ IngestMakedirs \/ RsyncFromNode \/ ImageCheck \/ DockerPull
    \/ DockerRun \/ RsyncToCrocus \/ Archive \/ Cleanup \/ IngestAgain

SpecIngest == InitIngest /\ [][NextIngest]_vars

\* The place of a step in the order of the script.
Rank(step) ==
    CASE step = "rsync-from-node" -> 1
      [] step = "image-check" -> 2
      [] step = "docker-pull" -> 3
      [] step = "docker-run" -> 4
      [] step = "rsync-to-crocus" -> 5
      [] step = "archive" -> 6
      [] step = "rmtree" -> 7

\* C30: the steps of a run of run-ingest.py follow the order rsync from
\* the node, image check, docker pull, docker run, rsync to the server,
\* archive, cleanup; the pull runs only when the image was absent; a
\* command checked by check_status that returned a non-zero code is the
\* last step of the run, which then has logged an error and exits with
\* status 1; and the archive directories change only in a run whose rsync
\* to the server returned 0.
PipelineOrder ==
    pc = "ingest" =>
        LET t == dl.trace
            Checked(s) == s.step # "image-check"
        IN  /\ \A i \in 1..(Len(t) - 1) : Rank(t[i].step) < Rank(t[i + 1].step)
            /\ \A i \in 1..Len(t) :
                  t[i].step = "docker-pull"
                  => i > 1 /\ t[i - 1].step = "image-check" /\ t[i - 1].rc # 0
            /\ \A i \in 1..Len(t) :
                  t[i].step = "docker-run"
                  => i > 1 /\ (\/ t[i - 1] = [step |-> "image-check", rc |-> 0]
                               \/ t[i - 1] = [step |-> "docker-pull", rc |-> 0])
            /\ \A i \in 1..Len(t) :
                  (Checked(t[i]) /\ t[i].rc # 0)
                  => /\ i = Len(t) /\ dl.phase = "exited" /\ dl.exit = "1"
                     /\ dl.log # <<>>
            /\ (\/ dl.raw_archived # dl.raw_archived0
                \/ dl.ingested_archived # dl.ingested_archived0
                \/ \E i \in 1..Len(t) : t[i].step \in {"archive", "rmtree"})
               => \E i \in 1..Len(t) : t[i] = [step |-> "rsync-to-crocus", rc |-> 0]

\* The rsync to the server failed with files in RAW_DIR and INJECT_DIR:
\* the script has logged the error and exited, and nothing was archived.
PushFailedNothingArchived ==
    /\ pc = "ingest" /\ dl.phase = "exited" /\ dl.exit = "1"
    /\ dl.trace[Len(dl.trace)] = [step |-> "rsync-to-crocus", rc |-> 1]
    /\ dl.raw # {} /\ dl.inject # {}
    /\ dl.raw_archived = dl.raw_archived0
    /\ dl.ingested_archived = dl.ingested_archived0
    /\ dl.log[Len(dl.log)] = "Rsync to Crocus server failed"

\* A run went through every step, the pull included, and archived files.
PipelineCompleted ==
    /\ pc = "ingest" /\ dl.phase = "done"
    /\ \E i \in 1..Len(dl.trace) : dl.trace[i].step = "docker-pull"
    /\ dl.raw_archived # dl.raw_archived0
    /\ dl.ingested_archived # dl.ingested_archived0
=============================================================================
